---- MODULE Spec2Model ----
(***************************************************************************)
(* Standings engine of the slo-pitch league site: the Game and Stats       *)
(* tables of one season, the aggregation of a team's record                *)
(* (StatsManager.update_team_stats), and the Slo-Pitch Ontario tie-break   *)
(* procedure (StatsManager.apply_spo_standings and its helpers), the       *)
(* memoizing StatsCalculator, and the two recomputations as runs of        *)
(* separate requests that interleave at their reads and saves of rows.     *)
(*                                                                         *)
(* One season is modelled: every query of the engine filters on the season *)
(* it is given, so games and rows of other seasons never reach it.         *)
(***************************************************************************)
EXTENDS Integers, Sequences, FiniteSets, Bags, TLC

VARIABLES games, stats, ret, applyRun, caches, call, upd, app

vars == <<games, stats, ret, applyRun, caches, call, upd, app>>

\* the state of the calculators and of the runs in progress
sessionVars == <<caches, call, upd, app>>

(***************************************************************************)
(* Bounds of the model.                                                    *)
(***************************************************************************)
NumTeams == 2
MaxGames == 1
TieTeams == 3
TieMaxGames == 2
LeagueTeams == 3
LeagueMaxGames == 4
MaxCalculators == 2
MaxCached == 2

Teams == 1..NumTeams

(***************************************************************************)
(* Program constants.                                                      *)
(***************************************************************************)
\* a null score (home_score / away_score are nullable integers)
NULL == -1
\* per-game cap of the run differential
CAP == 7
\* the symbol U+2020 (dagger) of the manual and multi-team resolutions
DAGGER == "dagger"

\* the score pairs a game is created or saved with: both entered, none
\* entered, or only one side entered
ScorePairs ==
    {<<9, 0>>, <<0, 8>>, <<8, 8>>, <<NULL, NULL>>, <<8, NULL>>}

Game(h, a, hs, as) ==
    [home_team |-> h, away_team |-> a, home_score |-> hs, away_score |-> as]

\* Stats row as created by get_or_create: the field defaults
DefaultStats(team) ==
    [team |-> team, wins |-> 0, losses |-> 0, ties |-> 0, points |-> 0,
     percentage |-> 0, runs_scored |-> 0, runs_against |-> 0,
     tie_breaker_rank |-> 0, tie_breaker_reason |-> "",
     tie_breaker_symbol |-> ""]

(***************************************************************************)
(* Generic helpers.                                                        *)
(***************************************************************************)
RECURSIVE SumFn(_, _)
SumFn(f, S) ==
    IF S = {} THEN 0
    ELSE LET x == CHOOSE y \in S : TRUE
         IN  f[x] + SumFn(f, S \ {x})

Min(a, b) == IF a < b THEN a ELSE b
Max(a, b) == IF a > b THEN a ELSE b

\* lexicographic order of two integer tuples of the same length (the order
\* Python gives the tuples a sort key returns)
RECURSIVE TupleLess(_, _)
TupleLess(k1, k2) ==
    IF k1 = <<>> THEN FALSE
    ELSE IF Head(k1) # Head(k2) THEN Head(k1) < Head(k2)
         ELSE TupleLess(Tail(k1), Tail(k2))

\* insert the keyed item x into the sorted sequence s before the first
\* element with a strictly greater key: the insertion step of a stable sort
RECURSIVE InsertStable(_, _)
InsertStable(x, s) ==
    IF s = <<>> THEN <<x>>
    ELSE IF TupleLess(x.key, Head(s).key) THEN <<x>> \o s
         ELSE <<Head(s)>> \o InsertStable(x, Tail(s))

RECURSIVE SortKeyed(_)
SortKeyed(s) ==
    IF s = <<>> THEN <<>>
    ELSE InsertStable(s[Len(s)], SortKeyed(SubSeq(s, 1, Len(s) - 1)))

\* list.sort(key=...) of Python and ORDER BY of the row store: the items of
\* s in ascending order of key[i], items of equal key in their order in s
StableSort(s, key) ==
    LET sorted == SortKeyed([i \in 1..Len(s) |-> [key |-> key[i], val |-> s[i]]])
    IN  [i \in 1..Len(s) |-> sorted[i].val]

(***************************************************************************)
(* The Stats table: rows in primary-key (creation) order.                  *)
(***************************************************************************)
HasStats(S, team) == \E i \in 1..Len(S) : S[i].team = team

StatsIndex(S, team) == CHOOSE i \in 1..Len(S) : S[i].team = team

StatsOf(S, team) == S[StatsIndex(S, team)]

\* Stats.objects.get_or_create(team=team, season=season)
get_or_create(S, team) ==
    IF HasStats(S, team) THEN S ELSE Append(S, DefaultStats(team))

\* stat.save(update_stats=False): the whole row is written
SaveStats(S, row) == [S EXCEPT ![StatsIndex(S, row.team)] = row]

(***************************************************************************)
(* Team.games_played / Stats.games_played: the games of the team with a    *)
(* non-null home score (the away score is not looked at).                  *)
(***************************************************************************)
games_played(G, team) ==
    {g \in BagToSet(G) :
        /\ g.home_team = team \/ g.away_team = team
        /\ g.home_score # NULL}

\* number of games of a set of distinct game values in the bag G
CountGames(G, gs) == SumFn([g \in gs |-> CopiesIn(g, G)], gs)

stats_games_played(G, team) == CountGames(G, games_played(G, team))

\* is_completed: both scores entered
is_completed(g) == g.home_score # NULL /\ g.away_score # NULL

\* the DecimalField(max_digits=4, decimal_places=3) value of w / n, in
\* thousandths (rounded to the nearest thousandth)
Percentage(w, n) == IF n > 0 THEN (2000 * w + n) \div (2 * n) ELSE 0

(***************************************************************************)
(* StatsManager.update_team_stats.                                         *)
(***************************************************************************)
\* comparing an entered score with a null one (home_score > away_score with
\* away_score None) raises TypeError; == does not
RaisesOnCompare(g) == g.home_score # NULL /\ g.away_score = NULL

\* what one game adds to (w, l, t, s, a) of team: the body of the loop
GameTally(g, team) ==
    IF g.home_score = g.away_score
    THEN IF g.home_team = team
         THEN [w |-> 0, l |-> 0, t |-> 1, s |-> g.home_score, a |-> g.away_score]
         ELSE [w |-> 0, l |-> 0, t |-> 1, s |-> g.away_score, a |-> g.home_score]
    ELSE IF g.home_score > g.away_score
    THEN IF g.home_team = team
         THEN [w |-> 1, l |-> 0, t |-> 0, s |-> g.home_score, a |-> g.away_score]
         ELSE [w |-> 0, l |-> 1, t |-> 0, s |-> g.away_score, a |-> g.home_score]
    ELSE IF g.home_team = team
         THEN [w |-> 0, l |-> 1, t |-> 0, s |-> g.home_score, a |-> g.away_score]
         ELSE [w |-> 1, l |-> 0, t |-> 0, s |-> g.away_score, a |-> g.home_score]

\* home_games + away_games of the team, home_score not null
TeamSeasonGames(G, team) ==
    {g \in BagToSet(G) : g.home_team = team /\ g.home_score # NULL}
    \cup {g \in BagToSet(G) : g.away_team = team /\ g.home_score # NULL}

\* AggregateRow with the points of the ties forgotten
AggregateRowWinsOnly(G, old, team) ==
    LET gs == TeamSeasonGames(G, team)
        tally == [g \in gs |-> GameTally(g, team)]
        w == SumFn([g \in gs |-> CopiesIn(g, G) * tally[g].w], gs)
        l == SumFn([g \in gs |-> CopiesIn(g, G) * tally[g].l], gs)
        t == SumFn([g \in gs |-> CopiesIn(g, G) * tally[g].t], gs)
        s == SumFn([g \in gs |-> CopiesIn(g, G) * tally[g].s], gs)
        a == SumFn([g \in gs |-> CopiesIn(g, G) * tally[g].a], gs)
    IN  [old EXCEPT !.runs_scored = s, !.runs_against = a,
                    !.points = 2 * w, !.ties = t, !.wins = w,
                    !.losses = l,
                    !.percentage = Percentage(w, stats_games_played(G, team))]

\* AggregateRow with a tie counted as half a win in the percentage
AggregateRowHalfTies(G, old, team) ==
    LET gs == TeamSeasonGames(G, team)
        tally == [g \in gs |-> GameTally(g, team)]
        w == SumFn([g \in gs |-> CopiesIn(g, G) * tally[g].w], gs)
        l == SumFn([g \in gs |-> CopiesIn(g, G) * tally[g].l], gs)
        t == SumFn([g \in gs |-> CopiesIn(g, G) * tally[g].t], gs)
        s == SumFn([g \in gs |-> CopiesIn(g, G) * tally[g].s], gs)
        a == SumFn([g \in gs |-> CopiesIn(g, G) * tally[g].a], gs)
    IN  [old EXCEPT !.runs_scored = s, !.runs_against = a,
                    !.points = (2 * w) + t, !.ties = t, !.wins = w,
                    !.losses = l,
                    !.percentage = Percentage((2 * w) + t, 2 * stats_games_played(G, team))]

\* the row update_team_stats computes for team from the games G, written
\* over the row old (whose tie-break annotation it keeps)
AggregateRow(G, old, team) ==
    LET gs == TeamSeasonGames(G, team)
        tally == [g \in gs |-> GameTally(g, team)]
        w == SumFn([g \in gs |-> CopiesIn(g, G) * tally[g].w], gs)
        l == SumFn([g \in gs |-> CopiesIn(g, G) * tally[g].l], gs)
        t == SumFn([g \in gs |-> CopiesIn(g, G) * tally[g].t], gs)
        s == SumFn([g \in gs |-> CopiesIn(g, G) * tally[g].s], gs)
        a == SumFn([g \in gs |-> CopiesIn(g, G) * tally[g].a], gs)
    IN  [old EXCEPT !.runs_scored = s, !.runs_against = a,
                    !.points = (2 * w) + t, !.ties = t, !.wins = w,
                    !.losses = l,
                    !.percentage = Percentage(w, stats_games_played(G, team))]

\* the call: [err |-> the call raised, stats |-> the table it leaves]
update_team_stats(G, S, team) ==
    LET S1 == get_or_create(S, team)
    IN  IF \E g \in TeamSeasonGames(G, team) : RaisesOnCompare(g)
        THEN [err |-> TRUE, stats |-> S1]
        ELSE [err |-> FALSE,
              stats |-> SaveStats(S1, AggregateRow(G, StatsOf(S1, team), team))]

(***************************************************************************)
(* StatsCalculator.calculate_team_stats for a season (the memoization is   *)
(* left out: the value is the one a calculator computes on a cache miss).  *)
(* percentage is the float wins / games_played, kept as a fraction.        *)
(***************************************************************************)
CalculatorGames(G, team) ==
    {g \in BagToSet(G) :
        /\ g.home_team = team \/ g.away_team = team
        /\ g.home_score # NULL /\ g.away_score # NULL}

CalculatorTally(g, team) ==
    LET is_home == g.home_team = team
        team_score == IF is_home THEN g.home_score ELSE g.away_score
        opponent_score == IF is_home THEN g.away_score ELSE g.home_score
    IN  [s |-> team_score, a |-> opponent_score,
         w |-> IF team_score > opponent_score THEN 1 ELSE 0,
         l |-> IF team_score > opponent_score THEN 0
               ELSE IF team_score < opponent_score THEN 1 ELSE 0,
         t |-> IF team_score > opponent_score \/ team_score < opponent_score
               THEN 0 ELSE 1]

calculate_team_stats(G, team) ==
    LET gs == CalculatorGames(G, team)
        tally == [g \in gs |-> CalculatorTally(g, team)]
        wins == SumFn([g \in gs |-> CopiesIn(g, G) * tally[g].w], gs)
        losses == SumFn([g \in gs |-> CopiesIn(g, G) * tally[g].l], gs)
        ties == SumFn([g \in gs |-> CopiesIn(g, G) * tally[g].t], gs)
        runs_scored == SumFn([g \in gs |-> CopiesIn(g, G) * tally[g].s], gs)
        runs_against == SumFn([g \in gs |-> CopiesIn(g, G) * tally[g].a], gs)
        games_played_ == wins + losses + ties
    IN  [team |-> team, wins |-> wins, losses |-> losses, ties |-> ties,
         games_played |-> games_played_, points |-> (2 * wins) + ties,
         percentage |-> IF games_played_ > 0
                        THEN [num |-> wins, den |-> games_played_]
                        ELSE [num |-> 0, den |-> 1],
         runs_scored |-> runs_scored, runs_against |-> runs_against,
         run_differential |-> runs_scored - runs_against]

\* n! : a common denominator of the percentages of teams with up to n games
RECURSIVE Factorial(_)
Factorial(n) == IF n <= 1 THEN 1 ELSE n * Factorial(n - 1)

\* the float percentage of the record c on an integer scale that keeps the
\* order and the equality of the floats (games_played divides the scale)
PercentageKey(G, c) ==
    (c.percentage.num * Factorial(BagCardinality(G))) \div c.percentage.den

\* the key of all_stats.sort: (-points, -percentage, runs_against)
CalculatorSortKey(G, c) == <<-c.points, -PercentageKey(G, c), c.runs_against>>

\* StatsCalculator.calculate_all_team_stats for the teams in name order
\* (teams: the sequence Team.objects.all().order_by('name'))
calculate_all_team_stats(G, teams) ==
    LET all_stats == SelectSeq([i \in 1..Len(teams) |-> calculate_team_stats(G, teams[i])],
                               LAMBDA c : c.games_played > 0)
    IN  StableSort(all_stats,
                   [i \in 1..Len(all_stats) |-> CalculatorSortKey(G, all_stats[i])])

(***************************************************************************)
(* Stats.run_differential, run_differential_capped, head_to_head_record,   *)
(* head_to_head_percentage.  A value is a record [kind, ...]: kind "err"   *)
(* when the evaluation raises TypeError on a null away score.              *)
(***************************************************************************)
run_differential(row) == row.runs_scored - row.runs_against

\* GameDiffCapped without the cap
GameDiffUncapped(g, team) ==
    IF g.home_team = team
    THEN g.home_score - g.away_score
    ELSE g.away_score - g.home_score

GameDiffCapped(g, team) ==
    IF g.home_team = team
    THEN Min(CAP, Max(-CAP, g.home_score - g.away_score))
    ELSE Min(CAP, Max(-CAP, g.away_score - g.home_score))

\* run_differential_capped with the cap applied to the season total
RunDifferentialCappedOfTotal(G, team) ==
    LET gs == games_played(G, team)
        margin(g) == IF g.home_team = team THEN g.home_score - g.away_score
                     ELSE g.away_score - g.home_score
    IN  IF \E g \in gs : g.away_score = NULL
        THEN [kind |-> "err", val |-> 0]
        ELSE [kind |-> "val",
              val |-> Min(CAP, Max(-CAP,
                         SumFn([g \in gs |-> CopiesIn(g, G) * margin(g)], gs)))]

run_differential_capped(G, team) ==
    LET gs == games_played(G, team)
    IN  IF \E g \in gs : g.away_score = NULL
        THEN [kind |-> "err", val |-> 0]
        ELSE [kind |-> "val",
              val |-> SumFn([g \in gs |-> CopiesIn(g, G) * GameDiffCapped(g, team)],
                            gs)]

HeadToHeadGames(G, team, other) ==
    {g \in BagToSet(G) :
        /\ g.home_score # NULL
        /\ \/ g.home_team = team /\ g.away_team = other
           \/ g.home_team = other /\ g.away_team = team}

head_to_head_record(G, team, other) ==
    LET gs == HeadToHeadGames(G, team, other)
        isTie(g) == g.home_score = g.away_score
        isWin(g) == \/ g.home_team = team /\ g.home_score > g.away_score
                    \/ g.away_team = team /\ g.away_score > g.home_score
    IN  IF \E g \in gs : RaisesOnCompare(g)
        THEN [kind |-> "err", w |-> 0, l |-> 0, t |-> 0]
        ELSE [kind |-> "val",
              w |-> CountGames(G, {g \in gs : ~isTie(g) /\ isWin(g)}),
              l |-> CountGames(G, {g \in gs : ~isTie(g) /\ ~isWin(g)}),
              t |-> CountGames(G, {g \in gs : isTie(g)})]

\* PercentageOfRecord with the ties left out of the numerator
PercentageOfRecordWinsOnly(r) ==
    IF r.kind = "err" THEN [kind |-> "err", num |-> 0, den |-> 1]
    ELSE IF r.w + r.l + r.t = 0 THEN [kind |-> "none", num |-> 0, den |-> 1]
    ELSE [kind |-> "val", num |-> 2 * r.w, den |-> 2 * (r.w + r.l + r.t)]

\* (wins + 0.5 * ties) / total_games of the record r as the fraction
\* num / den, or None when total_games is 0
PercentageOfRecord(r) ==
    IF r.kind = "err" THEN [kind |-> "err", num |-> 0, den |-> 1]
    ELSE IF r.w + r.l + r.t = 0 THEN [kind |-> "none", num |-> 0, den |-> 1]
    ELSE [kind |-> "val", num |-> 2 * r.w + r.t, den |-> 2 * (r.w + r.l + r.t)]

head_to_head_percentage(G, team, other) ==
    PercentageOfRecord(head_to_head_record(G, team, other))

\* comparisons of two percentages and of a percentage with 0.5
PctLess(p, q) == p.num * q.den < q.num * p.den
PctEq(p, q) == p.num * q.den = q.num * p.den
PctAboveHalf(p) == 2 * p.num > p.den
PctBelowHalf(p) == 2 * p.num < p.den

(***************************************************************************)
(* The tie-break procedure.  A resolution is [err |-> it raised,           *)
(* list |-> the rows in resolved order].                                   *)
(***************************************************************************)
Resolved(list) == [err |-> FALSE, list |-> list]
Raised == [err |-> TRUE, list |-> <<>>]

\* Stamp with the symbol left as it was
StampReasonOnly(row, reason, symbol) ==
    [row EXCEPT !.tie_breaker_reason = reason]

\* team.tie_breaker_reason = reason; team.tie_breaker_symbol = symbol
Stamp(row, reason, symbol) ==
    [row EXCEPT !.tie_breaker_reason = reason, !.tie_breaker_symbol = symbol]

\* winner and loser stamped alike, winner first
Decided(winner, loser, reason, symbol) ==
    Resolved(<<Stamp(winner, reason, symbol), Stamp(loser, reason, symbol)>>)

\* ManualResolution with the two teams returned in the opposite order
ManualResolutionSwapped(team1, team2) ==
    Resolved(<<Stamp(team2, "Requires manual resolution", DAGGER),
               Stamp(team1, "Requires manual resolution", DAGGER)>>)

\* rule 5: both stamped, returned in the original order
ManualResolution(team1, team2) ==
    Resolved(<<Stamp(team1, "Requires manual resolution", DAGGER),
               Stamp(team2, "Requires manual resolution", DAGGER)>>)

\* HeadToHeadDecisive without the test h2h_pct1 != h2h_pct2
HeadToHeadDecisiveNotNone(p1, p2) == p1.kind # "none"

\* rule 1 applies: h2h_pct1 is not None and h2h_pct1 != h2h_pct2
HeadToHeadDecisive(p1, p2) == p1.kind # "none" /\ ~PctEq(p1, p2)

\* the rules of _break_two_way_tie on the two rows, their head-to-head
\* percentages and their capped run differentials
TwoWayRules(team1, team2, h2h_pct1, h2h_pct2, diff1, diff2) ==
    IF h2h_pct1.kind = "err" \/ h2h_pct2.kind = "err" THEN Raised
    ELSE IF HeadToHeadDecisive(h2h_pct1, h2h_pct2)
    THEN IF PctLess(h2h_pct2, h2h_pct1)
         THEN Decided(team1, team2, "Head-to-head record", "*")
         ELSE Decided(team2, team1, "Head-to-head record", "*")
    ELSE IF diff1.kind = "err" \/ diff2.kind = "err" THEN Raised
    ELSE IF diff1.val # diff2.val
    THEN IF diff1.val > diff2.val
         THEN Decided(team1, team2, "Run differential", "**")
         ELSE Decided(team2, team1, "Run differential", "**")
    ELSE IF team1.runs_against # team2.runs_against
    THEN IF team1.runs_against < team2.runs_against
         THEN Decided(team1, team2, "Fewest runs against", "***")
         ELSE Decided(team2, team1, "Fewest runs against", "***")
    ELSE IF team1.runs_scored # team2.runs_scored
    THEN IF team1.runs_scored > team2.runs_scored
         THEN Decided(team1, team2, "Most runs scored", "****")
         ELSE Decided(team2, team1, "Most runs scored", "****")
    ELSE ManualResolution(team1, team2)

\* StatsManager._break_two_way_tie
break_two_way_tie(G, teams) ==
    TwoWayRules(teams[1], teams[2],
                head_to_head_percentage(G, teams[1].team, teams[2].team),
                head_to_head_percentage(G, teams[2].team, teams[1].team),
                run_differential_capped(G, teams[1].team),
                run_differential_capped(G, teams[2].team))

\* FailsDominance without the test for None
FailsDominanceIgnoringNone(p, mode) ==
    \/ mode = "beat" /\ ~PctAboveHalf(p)
    \/ mode = "lost" /\ ~PctBelowHalf(p)

\* FailsDominance with a percentage of exactly 0.5 passing both tests
FailsDominanceNotStrict(p, mode) ==
    \/ p.kind = "none"
    \/ mode = "beat" /\ PctBelowHalf(p)
    \/ mode = "lost" /\ PctAboveHalf(p)

\* the test of the inner loops of _break_multi_way_tie on one percentage:
\* the checked team fails on None, and on <= 0.5 ("beat") or >= 0.5 ("lost")
FailsDominance(p, mode) ==
    \/ p.kind = "none"
    \/ mode = "beat" /\ ~PctAboveHalf(p)
    \/ mode = "lost" /\ ~PctBelowHalf(p)

\* the inner loop for teams[i], from the other at position j on: "yes",
\* "no" (the loop breaks at the first failing other) or "err"
RECURSIVE DominanceFrom(_, _, _, _, _)

\* the body of the inner loop on the percentage against teams[j]
DominanceStep(G, teams, i, j, mode, h2h_pct) ==
    IF h2h_pct.kind = "err" THEN "err"
    ELSE IF FailsDominance(h2h_pct, mode) THEN "no"
    ELSE DominanceFrom(G, teams, i, j + 1, mode)

DominanceFrom(G, teams, i, j, mode) ==
    IF j > Len(teams) THEN "yes"
    ELSE IF teams[j].team = teams[i].team
    THEN DominanceFrom(G, teams, i, j + 1, mode)
    ELSE DominanceStep(G, teams, i, j, mode,
             head_to_head_percentage(G, teams[i].team, teams[j].team))

\* the outer loop from position i on: the first team that passes
RECURSIVE FirstDominant(_, _, _, _)

\* the outer loop after the inner loop gave d for teams[i]
FirstDominantStep(G, teams, i, mode, d) ==
    IF d = "err" THEN [kind |-> "err", idx |-> 0]
    ELSE IF d = "yes" THEN [kind |-> "found", idx |-> i]
    ELSE FirstDominant(G, teams, i + 1, mode)

FirstDominant(G, teams, i, mode) ==
    IF i > Len(teams) THEN [kind |-> "none", idx |-> 0]
    ELSE FirstDominantStep(G, teams, i, mode, DominanceFrom(G, teams, i, 1, mode))

\* Without with nobody removed
WithoutNobody(teams, team) == teams

\* remaining = [t for t in teams if t != team]
Without(teams, team) == SelectSeq(teams, LAMBDA t : t.team # team.team)

\* MultiWayKey with the capped run differential ascending
MultiWayKeyAscending(G, row) ==
    <<run_differential_capped(G, row.team).val, row.runs_against,
      -row.runs_scored>>

\* the key of the fallback sort of _break_multi_way_tie
MultiWayKey(G, row) ==
    <<-run_differential_capped(G, row.team).val, row.runs_against,
      -row.runs_scored>>

\* teams.sort(key=...) and the stamping of every member
MultiWayFallback(G, teams) ==
    IF \E i \in 1..Len(teams) :
           run_differential_capped(G, teams[i].team).kind = "err"
    THEN Raised
    ELSE LET sorted == StableSort(teams,
                           [i \in 1..Len(teams) |-> MultiWayKey(G, teams[i])])
         IN  Resolved([i \in 1..Len(sorted) |->
                 Stamp(sorted[i], "Multi-team tie resolution", DAGGER)])

RECURSIVE break_tie(_, _)

\* ResolveRemaining without the recursive call
ResolveRemainingSkipped(G, remaining) == Resolved(remaining)

\* the recursive call on the remaining teams (len(remaining) > 1 guards it)
ResolveRemaining(G, remaining) ==
    IF Len(remaining) > 1 THEN break_tie(G, remaining) ELSE Resolved(remaining)

\* return [team] + resolved_remaining
PlaceFirst(team, rest) ==
    IF rest.err THEN Raised
    ELSE Resolved(<<Stamp(team, "Beat all tied teams", DAGGER)>> \o rest.list)

\* PlaceLast with the team put in front of the resolved remaining teams
PlaceLastInFront(team, rest) ==
    IF rest.err THEN Raised
    ELSE Resolved(<<Stamp(team, "Lost to all tied teams", DAGGER)>> \o rest.list)

\* return resolved_remaining + [team]
PlaceLast(team, rest) ==
    IF rest.err THEN Raised
    ELSE Resolved(rest.list \o <<Stamp(team, "Lost to all tied teams", DAGGER)>>)

\* the second loop (a team that lost to all) and the fallback after it
LostToAll(G, teams, lost) ==
    IF lost.kind = "err" THEN Raised
    ELSE IF lost.kind = "found"
    THEN PlaceLast(teams[lost.idx],
                   ResolveRemaining(G, Without(teams, teams[lost.idx])))
    ELSE MultiWayFallback(G, teams)

\* the first loop (a team that beat all) and what follows it
BeatAll(G, teams, beat) ==
    IF beat.kind = "err" THEN Raised
    ELSE IF beat.kind = "found"
    THEN PlaceFirst(teams[beat.idx],
                    ResolveRemaining(G, Without(teams, teams[beat.idx])))
    ELSE LostToAll(G, teams, FirstDominant(G, teams, 1, "lost"))

\* StatsManager._break_multi_way_tie
break_multi_way_tie(G, teams) ==
    BeatAll(G, teams, FirstDominant(G, teams, 1, "beat"))

\* StatsManager._break_tie
break_tie(G, tied_teams) ==
    IF Len(tied_teams) <= 1 THEN Resolved(tied_teams)
    ELSE IF Len(tied_teams) = 2 THEN break_two_way_tie(G, tied_teams)
    ELSE break_multi_way_tie(G, tied_teams)

(***************************************************************************)
(* StatsManager.apply_spo_standings.                                       *)
(***************************************************************************)
\* the teams of the games with a non-null home score
TeamsWithGames(G) ==
    {g.home_team : g \in {x \in BagToSet(G) : x.home_score # NULL}}
    \cup {g.away_team : g \in {x \in BagToSet(G) : x.home_score # NULL}}

\* the teams of teams_with_games for which get_or_create creates the row (for
\* the others the first loop only reads)
MissingTeams(G, S) == {team \in TeamsWithGames(G) : ~HasStats(S, team)}

\* the orders in which a set can be iterated
Orders(T) ==
    {o \in [1..Cardinality(T) -> T] : \A i, j \in 1..Cardinality(T) :
                                          o[i] = o[j] => i = j}

\* the first loop, from position i of the iteration order on: a missing row
\* is created and aggregated
RECURSIVE EnsureStats(_, _, _, _)

\* the loop after update_team_stats gave r for order[i]
EnsureNext(G, order, i, r) ==
    IF r.err THEN r ELSE EnsureStats(G, r.stats, order, i + 1)

EnsureStats(G, S, order, i) ==
    IF i > Len(order) THEN [err |-> FALSE, stats |-> S]
    ELSE IF HasStats(S, order[i]) THEN EnsureStats(G, S, order, i + 1)
    ELSE EnsureNext(G, order, i,
             update_team_stats(G, get_or_create(S, order[i]), order[i]))

\* MetaOrderingKey with the rank of the last run as the leading key
MetaOrderingKeyByRank(row) ==
    <<-row.tie_breaker_rank, -row.points, -row.percentage, row.runs_against>>

\* Stats.Meta.ordering within the season: -points, -percentage, runs_against
MetaOrderingKey(row) == <<-row.points, -row.percentage, row.runs_against>>

\* list(Stats.objects.filter(season=season)): rows of equal ordering key come
\* in primary-key order
StatsQuery(S) == StableSort(S, [i \in 1..Len(S) |-> MetaOrderingKey(S[i])])

\* ClearTieBreak with the reason and the symbol left as they were
ClearTieBreakRankOnly(row) == [row EXCEPT !.tie_breaker_rank = 0]

\* the loop that clears the previous tie-breaking data
ClearTieBreak(row) ==
    [row EXCEPT !.tie_breaker_rank = 0, !.tie_breaker_reason = "",
                !.tie_breaker_symbol = ""]

\* BasicRecordKey with the key of Stats.Meta.ordering (points first)
BasicRecordKeyByPoints(row) == <<-row.points, -row.percentage, row.runs_against>>

\* BasicRecordKey with the wins ascending
BasicRecordKeyWinsAscending(row) == <<row.wins, -row.points, -row.percentage>>

\* the key of the sort by basic record
BasicRecordKey(row) == <<-row.wins, -row.points, -row.percentage>>

SameRecord(row, leader) ==
    row.wins = leader.wins /\ row.losses = leader.losses /\ row.ties = leader.ties

TiedTeams(remaining_teams) ==
    SelectSeq(remaining_teams, LAMBDA row : SameRecord(row, remaining_teams[1]))

\* RemoveAll with only the first team of resolved removed
RemoveAllFirstOnly(remaining_teams, resolved) ==
    SelectSeq(remaining_teams, LAMBDA row : resolved[1].team # row.team)

\* remaining_teams.remove(team) for every team of resolved
RemoveAll(remaining_teams, resolved) ==
    SelectSeq(remaining_teams,
              LAMBDA row : \A i \in 1..Len(resolved) : resolved[i].team # row.team)

\* the while loop
RECURSIVE ResolveLoop(_, _, _)

\* final_standings.extend(resolved) and the removal of the resolved teams
ResolveNext(G, remaining_teams, final_standings, resolved) ==
    IF resolved.err THEN Raised
    ELSE ResolveLoop(G, RemoveAll(remaining_teams, resolved.list),
                     final_standings \o resolved.list)

\* one pass of the loop for the group tied_teams of the first remaining team
ResolveGroup(G, remaining_teams, final_standings, tied_teams) ==
    IF Len(tied_teams) = 1
    THEN ResolveLoop(G, RemoveAll(remaining_teams, tied_teams),
                     final_standings \o tied_teams)
    ELSE ResolveNext(G, remaining_teams, final_standings,
                     break_tie(G, tied_teams))

ResolveLoop(G, remaining_teams, final_standings) ==
    IF remaining_teams = <<>> THEN Resolved(final_standings)
    ELSE ResolveGroup(G, remaining_teams, final_standings,
                      TiedTeams(remaining_teams))

\* AssignRanks with the rank left 0-based
AssignRanksZeroBased(final_standings) ==
    [i \in 1..Len(final_standings) |->
        [final_standings[i] EXCEPT !.tie_breaker_rank = i - 1]]

\* the last loop: tie_breaker_rank = i + 1 for the 0-based position i
AssignRanks(final_standings) ==
    [i \in 1..Len(final_standings) |->
        [final_standings[i] EXCEPT !.tie_breaker_rank = i]]

RECURSIVE SaveAll(_, _)
SaveAll(S, rows) ==
    IF rows = <<>> THEN S ELSE SaveAll(SaveStats(S, Head(rows)), Tail(rows))

\* stats_list with the previous tie-breaking data cleared
ClearAll(stats_list) ==
    [i \in 1..Len(stats_list) |-> ClearTieBreak(stats_list[i])]

\* stats_list.sort(key=lambda x: (-x.wins, -x.points, -x.percentage))
SortByRecord(stats_list) ==
    StableSort(stats_list,
               [i \in 1..Len(stats_list) |-> BasicRecordKey(stats_list[i])])

\* the rank assignment and the return
ApplyRanks(cleared, final_standings) ==
    [err |-> FALSE, stats |-> SaveAll(cleared, final_standings),
     list |-> final_standings]

\* the end of the call on the cleared table and the outcome of the loop
ApplyResolved(cleared, resolved) ==
    IF resolved.err
    THEN [err |-> TRUE, stats |-> cleared, list |-> <<>>]
    ELSE ApplyRanks(cleared, AssignRanks(resolved.list))

\* the call from the cleared stats_list on
ApplyCleared(G, S, stats_list) ==
    ApplyResolved(SaveAll(S, stats_list),
                  ResolveLoop(G, SortByRecord(stats_list), <<>>))

\* the call after its first loop
ApplyEnsured(G, ensured) ==
    IF ensured.err
    THEN [err |-> TRUE, stats |-> ensured.stats, list |-> <<>>]
    ELSE ApplyCleared(G, ensured.stats, ClearAll(StatsQuery(ensured.stats)))

\* the call, the teams with games that have no row yet iterated in the
\* given order: [err |-> it raised, stats |-> the table it leaves,
\* list |-> what it returns]
apply_spo_standings(G, S, order) ==
    ApplyEnsured(G, EnsureStats(G, S, order, 1))

(***************************************************************************)
(* The operations on the store.  ret is the outcome of the last operation  *)
(* (op "none" for the operations that return nothing the engine reads),    *)
(* applyRun the number of apply_spo_standings calls that returned in a row *)
(* since another operation ran (counted up to 2).  caches holds the cache  *)
(* of every StatsCalculator constructed, call the last calculator call,    *)
(* upd and app the update_team_stats and apply_spo_standings runs in       *)
(* progress with their local variables.                                    *)
(***************************************************************************)
Outcome(op, err, list) ==
    [op |-> op, status |-> IF err THEN "error" ELSE "ok", list |-> list]

\* no calculator call was made yet
NoCall == [inst |-> 0, team |-> 0, season |-> 0, hit |-> FALSE]

\* no update_team_stats run is in progress
IdleUpdate == [pc |-> "idle", team |-> 0, row |-> <<>>]

\* no apply_spo_standings run is in progress
IdleApply ==
    [pc |-> "idle", list |-> <<>>, i |-> 0, remaining |-> <<>>, final |-> <<>>,
     stack |-> <<>>, result |-> <<>>]

\* no calculator exists and no run is in progress
NoSession ==
    /\ caches = <<>>
    /\ call = NoCall
    /\ upd = IdleUpdate
    /\ app = IdleApply

Init ==
    /\ games = EmptyBag
    /\ stats = <<>>
    /\ ret = Outcome("none", FALSE, <<>>)
    /\ applyRun = 0
    /\ NoSession

\* Game.objects.create(...) / Game.save of a new game
CreateGame ==
    /\ BagCardinality(games) < MaxGames
    /\ \E h \in Teams, a \in Teams, sp \in ScorePairs :
          /\ h < a
          /\ games' = games (+) SetToBag({Game(h, a, sp[1], sp[2])})
    /\ ret' = Outcome("none", FALSE, <<>>)
    /\ applyRun' = 0
    /\ UNCHANGED <<stats, sessionVars>>

\* Game.save of an existing game whose scores are entered
EnterScores ==
    /\ \E g \in BagToSet(games), sp \in ScorePairs :
          /\ ~is_completed(g)
          /\ <<g.home_score, g.away_score>> # sp
          /\ games' = (games (-) SetToBag({g}))
                         (+) SetToBag({Game(g.home_team, g.away_team, sp[1], sp[2])})
    /\ ret' = Outcome("none", FALSE, <<>>)
    /\ applyRun' = 0
    /\ UNCHANGED <<stats, sessionVars>>

\* Stats.objects.get_or_create(team=team, season=season) creating the row
GetOrCreateStats ==
    /\ \E team \in Teams :
          /\ ~HasStats(stats, team)
          /\ stats' = get_or_create(stats, team)
    /\ ret' = Outcome("none", FALSE, <<>>)
    /\ applyRun' = 0
    /\ UNCHANGED <<games, sessionVars>>

\* Stats.objects.update_team_stats(team, season), also run by Stats.save()
UpdateTeamStats ==
    /\ \E team \in Teams :
          \E r \in {update_team_stats(games, stats, team)} :
              /\ stats' = r.stats
              /\ ret' = Outcome("update_team_stats", r.err, <<>>)
    /\ applyRun' = 0
    /\ UNCHANGED <<games, sessionVars>>

\* Stats.objects.apply_spo_standings(season)
ApplySpoStandings ==
    /\ \E order \in Orders(MissingTeams(games, stats)) :
          \E r \in {apply_spo_standings(games, stats, order)} :
              /\ stats' = r.stats
              /\ ret' = Outcome("apply_spo_standings", r.err, r.list)
              /\ applyRun' = IF r.err THEN 0 ELSE Min(applyRun + 1, 2)
    /\ UNCHANGED <<games, sessionVars>>

Next ==
    \/ CreateGame
    \/ EnterScores
    \/ GetOrCreateStats
    \/ UpdateTeamStats
    \/ ApplySpoStandings

Spec == Init /\ [][Next]_vars

(***************************************************************************)
(* The tie-break procedure on a season as the test fixtures set it up: the *)
(* Stats rows of all teams exist (created in team order), the games are    *)
(* any set of at most TieMaxGames completed games, and each row is either  *)
(* still the default row or was aggregated by update_team_stats after the  *)
(* games were entered.                                                     *)
(***************************************************************************)
TieTeamSet == 1..TieTeams

\* a home win by 9, a home win by 1, an away win by 8, a tie
TieScorePairs == {<<9, 0>>, <<9, 8>>, <<0, 8>>, <<8, 8>>}

\* the home team is the one with the smaller id
TieGameTypes ==
    {Game(p[1], p[2], sp[1], sp[2]) :
        p \in {q \in TieTeamSet \X TieTeamSet : q[1] < q[2]},
        sp \in TieScorePairs}

\* the subsets of T with at most k elements
RECURSIVE SubsetsUpTo(_, _)
SubsetsUpTo(T, k) ==
    IF k = 0 THEN {{}}
    ELSE LET smaller == SubsetsUpTo(T, k - 1)
         IN  smaller \cup {gs \cup {g} : gs \in smaller, g \in T}

\* the table after get_or_create for every team and update_team_stats for
\* the teams of updated
FixtureStats(G, updated) ==
    [team \in TieTeamSet |->
        IF team \in updated
        THEN AggregateRow(G, DefaultStats(team), team)
        ELSE DefaultStats(team)]

InitTie ==
    /\ games \in {SetToBag(gs) : gs \in SubsetsUpTo(TieGameTypes, TieMaxGames)}
    /\ stats \in {FixtureStats(games, updated) : updated \in SUBSET TieTeamSet}
    /\ ret = Outcome("none", FALSE, <<>>)
    /\ applyRun = 0
    /\ NoSession

NextTie == ApplySpoStandings

SpecTie == InitTie /\ [][NextTie]_vars

(***************************************************************************)
(* The league table of a season: the games are any bag of at most          *)
(* LeagueMaxGames completed games (a pair of teams can meet several times   *)
(* with the same score), the Stats row of every team was written by         *)
(* update_team_stats after the games were entered, and the league table is  *)
(* computed by the calculator or ranked by apply_spo_standings.             *)
(***************************************************************************)
LeagueTeamSet == 1..LeagueTeams

\* the teams in name order
TeamsByName == [i \in 1..LeagueTeams |-> i]

\* a home win by 9 and a tie
LeagueScorePairs == {<<9, 0>>, <<8, 8>>}

LeagueGameTypes ==
    {Game(p[1], p[2], sp[1], sp[2]) :
        p \in {q \in LeagueTeamSet \X LeagueTeamSet : q[1] < q[2]},
        sp \in LeagueScorePairs}

\* the bags of at most k elements of T
RECURSIVE BagsUpTo(_, _)
BagsUpTo(T, k) ==
    IF k = 0 THEN {EmptyBag}
    ELSE LET smaller == BagsUpTo(T, k - 1)
         IN  smaller \cup {b (+) SetToBag({g}) : b \in smaller, g \in T}

InitLeague ==
    /\ games \in BagsUpTo(LeagueGameTypes, LeagueMaxGames)
    /\ stats = [team \in LeagueTeamSet |->
                   AggregateRow(games, DefaultStats(team), team)]
    /\ ret = Outcome("none", FALSE, <<>>)
    /\ applyRun = 0
    /\ NoSession

\* StatsCalculator().calculate_all_team_stats(season)
CalculateAllTeamStats ==
    /\ ret' = Outcome("calculate_all_team_stats", FALSE,
                      calculate_all_team_stats(games, TeamsByName))
    /\ applyRun' = 0
    /\ UNCHANGED <<games, stats, sessionVars>>

NextLeague ==
    \/ CalculateAllTeamStats
    \/ ApplySpoStandings

SpecLeague == InitLeague /\ [][NextLeague]_vars

(***************************************************************************)
(* The memoizing StatsCalculator.  A calculator is its cache, a function   *)
(* from cache keys to the dictionaries it returned; the season argument is *)
(* the current season (whose games are the variable games), an earlier     *)
(* season with one played game, or None for all seasons.                   *)
(***************************************************************************)
\* season=None
NoSeason == 0
\* the id of the season of games
CurrentSeason == 1
\* the id of an earlier season
EarlierSeason == 2

\* the games of the earlier season: team 1 beat team 2 by 9-0
EarlierSeasonGames == SetToBag({Game(1, 2, 9, 0)})

\* the games the filter of calculate_team_stats reads for the season
\* argument: the season's, or those of every season for None
SeasonGames(G, season) ==
    IF season = NoSeason THEN G (+) EarlierSeasonGames
    ELSE IF season = CurrentSeason THEN G
    ELSE EarlierSeasonGames

\* the seasons a calculator is called with
CalcSeasons == {CurrentSeason, NoSeason}

\* str(n) of a non-negative integer, as the sequence of its characters
RECURSIVE IdString(_)
IdString(n) ==
    IF n < 10 THEN <<<<"0", "1", "2", "3", "4", "5", "6", "7", "8", "9">>[n + 1]>>
    ELSE IdString(n \div 10) \o IdString(n % 10)

\* cache_key with the season left out
CacheKeyTeamOnly(team, season) == IdString(team) \o <<"_">>

\* f"{team.id}_{season.id if season else 'all'}"
cache_key(team, season) ==
    IdString(team) \o <<"_">>
        \o (IF season = NoSeason THEN <<"a", "l", "l">> ELSE IdString(season))

\* the dictionary a cache miss computes: the record with its season
StatsDict(G, team, season) ==
    [season |-> season,
     record |-> calculate_team_stats(SeasonGames(G, season), team)]

\* self._cache[cache_key] = stats
CacheStore(cache, key, dict) == cache @@ (key :> dict)

\* the call on the calculator with the given cache: [hit, cache, dict]
CalculatorCall(G, cache, team, season, key) ==
    IF key \in DOMAIN cache
    THEN [hit |-> TRUE, cache |-> cache, dict |-> cache[key]]
    ELSE [hit |-> FALSE,
          cache |-> CacheStore(cache, key, StatsDict(G, team, season)),
          dict |-> StatsDict(G, team, season)]

\* StatsCalculator()
NewCalculator ==
    /\ Len(caches) < MaxCalculators
    /\ caches' = Append(caches, <<>>)
    /\ ret' = Outcome("none", FALSE, <<>>)
    /\ applyRun' = 0
    /\ UNCHANGED <<games, stats, call, upd, app>>

\* calculator.calculate_team_stats(team, season) on the calculator inst
CalculateTeamStats ==
    /\ \E inst \in 1..Len(caches), team \in Teams, season \in CalcSeasons :
          \E r \in {CalculatorCall(games, caches[inst], team, season,
                                   cache_key(team, season))} :
              /\ r.hit \/ Cardinality(DOMAIN caches[inst]) < MaxCached
              /\ caches' = [caches EXCEPT ![inst] = r.cache]
              /\ call' = [inst |-> inst, team |-> team, season |-> season,
                          hit |-> r.hit]
              /\ ret' = Outcome("calculate_team_stats", FALSE, <<r.dict>>)
    /\ applyRun' = 0
    /\ UNCHANGED <<games, stats, upd, app>>

NextCalc ==
    \/ CreateGame
    \/ EnterScores
    \/ NewCalculator
    \/ CalculateTeamStats

SpecCalc == Init /\ [][NextCalc]_vars

(***************************************************************************)
(* The recomputations as runs.  An update_team_stats run and an            *)
(* apply_spo_standings run of two requests interleave at their reads and   *)
(* saves of Stats rows; the games do not change.  upd.row is the row the   *)
(* update run read, app.list the stats_list of the standings run,          *)
(* app.remaining and app.final its remaining_teams and final_standings,    *)
(* app.stack the _break_tie calls in progress (the innermost last) and     *)
(* app.result the value the innermost call returns.                        *)
(***************************************************************************)
\* a home win by 9, an away win by 8, a tie, and a game with only the home
\* score entered
RunScorePairs == {<<9, 0>>, <<0, 8>>, <<8, 8>>, <<8, NULL>>}

RunGameTypes ==
    {Game(p[1], p[2], sp[1], sp[2]) :
        p \in {q \in TieTeamSet \X TieTeamSet : q[1] < q[2]},
        sp \in RunScorePairs}

\* the Stats table before the runs: empty, the rows created before the
\* games were entered, or the rows aggregated after they were entered
RunFixtures(G) ==
    {<<>>, [team \in TieTeamSet |-> DefaultStats(team)]}
    \cup {[team \in TieTeamSet |-> AggregateRow(G, DefaultStats(team), team)] :
             x \in {y \in {1} : \A g \in BagToSet(G) : ~RaisesOnCompare(g)}}

InitRun ==
    /\ games \in {SetToBag(gs) : gs \in SubsetsUpTo(RunGameTypes, TieMaxGames)}
    /\ stats \in RunFixtures(games)
    /\ ret = Outcome("none", FALSE, <<>>)
    /\ applyRun = 0
    /\ NoSession

\* update_team_stats: get_or_create and the loop over the games of the team
UpdBegin ==
    /\ upd.pc = "idle"
    /\ \E team \in TieTeamSet :
          \E S1 \in {get_or_create(stats, team)},
             raises \in {\E g \in TeamSeasonGames(games, team) : RaisesOnCompare(g)} :
              /\ stats' = S1
              /\ upd' = [pc |-> IF raises THEN "raised" ELSE "save",
                         team |-> team, row |-> <<StatsOf(S1, team)>>]
              /\ ret' = IF raises THEN Outcome("update_team_stats", TRUE, <<>>)
                        ELSE ret
    /\ UNCHANGED <<games, applyRun, caches, call, app>>

\* update_team_stats: the fields are set on the row read and the row saved
UpdSave ==
    /\ upd.pc = "save"
    /\ stats' = SaveStats(stats, AggregateRow(games, upd.row[1], upd.team))
    /\ upd' = [upd EXCEPT !.pc = "done"]
    /\ ret' = Outcome("update_team_stats", FALSE, <<>>)
    /\ UNCHANGED <<games, applyRun, caches, call, app>>

\* the standings run after its first loop gave ensured
BeginStep(ensured) ==
    IF ensured.err THEN [IdleApply EXCEPT !.pc = "raised"]
    ELSE [IdleApply EXCEPT !.pc = "clear", !.list = StatsQuery(ensured.stats),
                           !.i = 1]

\* apply_spo_standings: the first loop and the query of stats_list
AppBegin ==
    /\ app.pc = "idle"
    /\ \E order \in Orders(MissingTeams(games, stats)) :
          \E ensured \in {EnsureStats(games, stats, order, 1)} :
              /\ stats' = ensured.stats
              /\ app' = BeginStep(ensured)
              /\ ret' = IF ensured.err
                        THEN Outcome("apply_spo_standings", TRUE, <<>>)
                        ELSE ret
    /\ UNCHANGED <<games, applyRun, caches, call, upd>>

\* one pass of the loop that clears the tie-breaking data and saves the row
AppClear ==
    /\ app.pc = "clear"
    /\ app.i <= Len(app.list)
    /\ app' = [app EXCEPT !.list[app.i] = ClearTieBreak(@), !.i = @ + 1]
    /\ stats' = SaveStats(stats, ClearTieBreak(app.list[app.i]))
    /\ UNCHANGED <<games, ret, applyRun, caches, call, upd>>

\* the sort by basic record; remaining_teams = stats_list[:]
AppSort ==
    /\ app.pc = "clear"
    /\ app.i > Len(app.list)
    /\ app' = [app EXCEPT !.pc = "loop", !.remaining = SortByRecord(app.list),
                          !.list = <<>>, !.i = 0]
    /\ UNCHANGED <<games, stats, ret, applyRun, caches, call, upd>>

\* a _break_tie call on teams that has not returned: place and held are set
\* when it waits for its recursive call ("first": held + the result of the
\* call, "last": the result + held)
Frame(teams) == [teams |-> teams, place |-> "", held |-> <<>>]

\* [team] + resolved_remaining / resolved_remaining + [team]
Place(place, held, list) ==
    IF place = "first" THEN held \o list ELSE list \o held

\* the innermost call returns r, or raises
Returning(a, r) ==
    IF r.err THEN [a EXCEPT !.pc = "raised", !.stack = <<>>]
    ELSE [a EXCEPT !.pc = "return", !.result = r.list]

\* the innermost call stamped team and resolves the remaining teams: by a
\* recursive call when there are two or more
Recurse(a, place, team, remaining) ==
    IF Len(remaining) > 1
    THEN [a EXCEPT !.stack = Append([@ EXCEPT ![Len(@)].place = place,
                                              ![Len(@)].held = <<team>>],
                                    Frame(remaining))]
    ELSE [a EXCEPT !.pc = "return", !.result = Place(place, <<team>>, remaining)]

\* _break_multi_way_tie after its first loop found no team: the second loop
\* and the fallback
MultiWayLostStep(G, a, teams, lost) ==
    IF lost.kind = "err" THEN Returning(a, Raised)
    ELSE IF lost.kind = "found"
    THEN Recurse(a, "last",
                 Stamp(teams[lost.idx], "Lost to all tied teams", DAGGER),
                 Without(teams, teams[lost.idx]))
    ELSE Returning(a, MultiWayFallback(G, teams))

\* _break_multi_way_tie after its first loop
MultiWayStep(G, a, teams, beat) ==
    IF beat.kind = "err" THEN Returning(a, Raised)
    ELSE IF beat.kind = "found"
    THEN Recurse(a, "first",
                 Stamp(teams[beat.idx], "Beat all tied teams", DAGGER),
                 Without(teams, teams[beat.idx]))
    ELSE MultiWayLostStep(G, a, teams, FirstDominant(G, teams, 1, "lost"))

\* the innermost _break_tie call runs up to its return or its recursive call
BreakTieStep(G, a, teams) ==
    IF Len(teams) <= 1 THEN Returning(a, Resolved(teams))
    ELSE IF Len(teams) = 2 THEN Returning(a, break_two_way_tie(G, teams))
    ELSE MultiWayStep(G, a, teams, FirstDominant(G, teams, 1, "beat"))

\* one pass of the while loop up to the _break_tie call
LoopStep(a, tied_teams) ==
    IF Len(tied_teams) = 1
    THEN [a EXCEPT !.final = @ \o tied_teams,
                   !.remaining = RemoveAll(@, tied_teams)]
    ELSE [a EXCEPT !.pc = "break", !.stack = <<Frame(tied_teams)>>]

AppLoop ==
    /\ app.pc = "loop"
    /\ app.remaining # <<>>
    /\ app' = LoopStep(app, TiedTeams(app.remaining))
    /\ UNCHANGED <<games, stats, ret, applyRun, caches, call, upd>>

\* remaining_teams is empty: the loop ends
AppLoopEnd ==
    /\ app.pc = "loop"
    /\ app.remaining = <<>>
    /\ app' = [app EXCEPT !.pc = "rank", !.i = 1]
    /\ UNCHANGED <<games, stats, ret, applyRun, caches, call, upd>>

\* the calls in progress are never more than the teams of the season
AppBreakTie ==
    /\ app.pc = "break"
    /\ \E next \in {BreakTieStep(games, app, app.stack[Len(app.stack)].teams)} :
          /\ Len(next.stack) <= TieTeams
          /\ app' = next
          /\ ret' = IF next.pc = "raised"
                    THEN Outcome("apply_spo_standings", TRUE, <<>>)
                    ELSE ret
    /\ UNCHANGED <<games, stats, applyRun, caches, call, upd>>

\* the innermost call returns a.result to the call that waits for it, which
\* returns in turn, or to the while loop: final_standings.extend(resolved)
\* and the removal of the resolved teams
ReturnStep(a, callers) ==
    IF callers = <<>>
    THEN [a EXCEPT !.pc = "loop", !.stack = <<>>, !.result = <<>>,
                   !.final = @ \o a.result,
                   !.remaining = RemoveAll(@, a.result)]
    ELSE [a EXCEPT !.stack = callers,
                   !.result = Place(callers[Len(callers)].place,
                                    callers[Len(callers)].held, @)]

AppReturn ==
    /\ app.pc = "return"
    /\ app' = ReturnStep(app, SubSeq(app.stack, 1, Len(app.stack) - 1))
    /\ UNCHANGED <<games, stats, ret, applyRun, caches, call, upd>>

\* one pass of the last loop: the rank is set and the row saved
AppRank ==
    /\ app.pc = "rank"
    /\ app.i <= Len(app.final)
    /\ app' = [app EXCEPT !.final[app.i] = AssignRanks(app.final)[app.i],
                          !.i = @ + 1]
    /\ stats' = SaveStats(stats, AssignRanks(app.final)[app.i])
    /\ UNCHANGED <<games, ret, applyRun, caches, call, upd>>

\* return final_standings
AppFinish ==
    /\ app.pc = "rank"
    /\ app.i > Len(app.final)
    /\ app' = [app EXCEPT !.pc = "done"]
    /\ ret' = Outcome("apply_spo_standings", FALSE, app.final)
    /\ UNCHANGED <<games, stats, applyRun, caches, call, upd>>

\* the steps of the update run and of the standings run
UpdNext == UpdBegin \/ UpdSave

\* the steps of a standings run that has begun
AppSteps ==
    \/ AppClear
    \/ AppSort
    \/ AppLoop
    \/ AppLoopEnd
    \/ AppBreakTie
    \/ AppReturn
    \/ AppRank
    \/ AppFinish

AppNext == AppBegin \/ AppSteps

NextRun == UpdNext \/ AppNext

SpecRun == InitRun /\ [][NextRun]_vars

\* the standings run alone.  A request runs to completion before it returns:
\* a run that has begun is not suspended forever
SpecRunFair == InitRun /\ [][AppNext]_vars /\ WF_vars(AppSteps)

(***************************************************************************)
(* Properties of the store operations (specification Spec).                *)
(***************************************************************************)
\* the last operation was an apply_spo_standings call that returned
AppliedOk == ret.op = "apply_spo_standings" /\ ret.status = "ok"

\* the last operation was an apply_spo_standings call (returned or raised)
Applied == ret.op = "apply_spo_standings"

\* the row shares its (wins, losses, ties) with another row of the table
SharesRecord(S, i) == \E j \in 1..Len(S) : j # i /\ SameRecord(S[j], S[i])

\* C1: the returned list has rank i + 1 at 0-based position i, so its ranks
\* are exactly 1..N without gap or duplicate.
C1_RankContiguity ==
    AppliedOk =>
        /\ \A i \in 1..Len(ret.list) : ret.list[i].tie_breaker_rank = i
        /\ {ret.list[i].tie_breaker_rank : i \in 1..Len(ret.list)}
              = 1..Len(ret.list)

\* a call returned two or more rows, two of them tied on their record
C1_Witness ==
    /\ AppliedOk
    /\ Len(ret.list) >= 2
    /\ SameRecord(ret.list[1], ret.list[2])
    /\ ret.list[2].tie_breaker_rank = 2

\* C2: every row a call sorted and grouped carries the record aggregated
\* from the completed games of the season at the time of the call.
C2_FreshlyAggregated ==
    AppliedOk =>
        \A i \in 1..Len(ret.list) :
            LET row == ret.list[i]
                fresh == calculate_team_stats(games, row.team)
            IN  /\ row.wins = fresh.wins
                /\ row.losses = fresh.losses
                /\ row.ties = fresh.ties
                /\ row.points = fresh.points
                /\ row.runs_scored = fresh.runs_scored
                /\ row.runs_against = fresh.runs_against

\* rank, reason and symbol of every team of a returned list
Annotations(list) ==
    {<<list[i].team, list[i].tie_breaker_rank, list[i].tie_breaker_reason,
       list[i].tie_breaker_symbol>> : i \in 1..Len(list)}

\* C3: right after a call returned, a further call on the unchanged games
\* returns, and with the same rank, reason and symbol for every team.
C3_Idempotence ==
    AppliedOk =>
        \A order \in Orders(MissingTeams(games, stats)) :
            LET again == apply_spo_standings(games, stats, order)
            IN  /\ ~again.err
                /\ Annotations(again.list) = Annotations(ret.list)

\* two calls in a row returned, the second one with a resolved tie
C3_Witness ==
    /\ AppliedOk
    /\ applyRun = 2
    /\ \E i \in 1..Len(ret.list) : ret.list[i].tie_breaker_symbol # ""

\* C4: after a call returned, a row whose (wins, losses, ties) no other row
\* of the season shares has an empty reason and an empty symbol.
C4_NoStaleAnnotation ==
    AppliedOk =>
        \A i \in 1..Len(stats) :
            ~SharesRecord(stats, i) =>
                /\ stats[i].tie_breaker_reason = ""
                /\ stats[i].tie_breaker_symbol = ""

\* a call returned with a row that is alone on its record next to another
\* row, after the team's record was aggregated from a played game
C4_Witness ==
    /\ AppliedOk
    /\ Len(stats) >= 2
    /\ \E i \in 1..Len(stats) :
          /\ ~SharesRecord(stats, i)
          /\ stats[i].wins > 0
          /\ stats[i].tie_breaker_symbol = ""

\* the rows the standings view keeps: games_played() > 0
VisibleStandings(G, list) ==
    SelectSeq(list, LAMBDA row : stats_games_played(G, row.team) > 0)

NoCompletedGames(G) == \A g \in BagToSet(G) : ~is_completed(g)

\* C5: for a season without a completed game a call raises no error and the
\* standings (after the view's filter on games played) are empty.
C5_EmptyStandings ==
    (Applied /\ NoCompletedGames(games)) =>
        /\ ret.status = "ok"
        /\ VisibleStandings(games, ret.list) = <<>>

\* the games with both scores entered
CompletedGames(G) ==
    [g \in {x \in BagToSet(G) : is_completed(x)} |-> CopiesIn(g, G)]

RecordFields(row) ==
    <<row.wins, row.losses, row.ties, row.points, row.runs_scored,
      row.runs_against>>

\* C6: a game with a null score on either side contributes nothing:
\* update_team_stats and calculate_team_stats complete without error and
\* give what they give on the games with both scores entered.
C6_NullScoreIgnored ==
    \A team \in Teams :
        LET all == update_team_stats(games, stats, team)
            completed == update_team_stats(CompletedGames(games), stats, team)
        IN  /\ ~all.err
            /\ RecordFields(StatsOf(all.stats, team))
                  = RecordFields(StatsOf(completed.stats, team))
            /\ StatsOf(all.stats, team).percentage
                  = StatsOf(completed.stats, team).percentage
            /\ calculate_team_stats(games, team)
                  = calculate_team_stats(CompletedGames(games), team)

(***************************************************************************)
(* Properties of the tie-break procedure (specification SpecTie).          *)
(***************************************************************************)
RowOf(team) == StatsOf(stats, team)

\* (wins, losses, ties) of the team as the season's completed games give it
PlayedRecord(team) ==
    LET c == calculate_team_stats(games, team)
    IN  <<c.wins, c.losses, c.ties>>

\* C7: two teams that alone share a win/loss/tie record, have no game
\* against each other and differ in capped run differential are ranked one
\* directly above the other, higher differential first, both stamped with
\* symbol ** and reason "Run differential".
C7_RunDifferentialDecides ==
    AppliedOk =>
        \A i, j \in 1..Len(stats) :
            LET a == stats[i].team
                b == stats[j].team
            IN  ( /\ i # j
                  /\ PlayedRecord(a) = PlayedRecord(b)
                  /\ \A k \in 1..Len(stats) :
                        k \notin {i, j} => PlayedRecord(stats[k].team) # PlayedRecord(a)
                  /\ HeadToHeadGames(games, a, b) = {}
                  /\ run_differential_capped(games, a).val
                        > run_differential_capped(games, b).val )
                => /\ stats[i].tie_breaker_rank + 1 = stats[j].tie_breaker_rank
                   /\ stats[i].tie_breaker_symbol = "**"
                   /\ stats[j].tie_breaker_symbol = "**"
                   /\ stats[i].tie_breaker_reason = "Run differential"
                   /\ stats[j].tie_breaker_reason = "Run differential"

\* the first of the four rules that is decisive for the rows t1 and t2, 5 if
\* none is
DecisiveRule(t1, t2) ==
    LET p1 == head_to_head_percentage(games, t1.team, t2.team)
        p2 == head_to_head_percentage(games, t2.team, t1.team)
    IN  IF p1.kind = "val" /\ p2.kind = "val" /\ ~PctEq(p1, p2) THEN 1
        ELSE IF run_differential_capped(games, t1.team).val
                   # run_differential_capped(games, t2.team).val THEN 2
        ELSE IF t1.runs_against # t2.runs_against THEN 3
        ELSE IF t1.runs_scored # t2.runs_scored THEN 4
        ELSE 5

\* t1 is ahead of t2 by the given rule
AheadBy(rule, t1, t2) ==
    CASE rule = 1 -> PctLess(head_to_head_percentage(games, t2.team, t1.team),
                             head_to_head_percentage(games, t1.team, t2.team))
      [] rule = 2 -> run_differential_capped(games, t1.team).val
                        > run_differential_capped(games, t2.team).val
      [] rule = 3 -> t1.runs_against < t2.runs_against
      [] rule = 4 -> t1.runs_scored > t2.runs_scored
      [] OTHER -> FALSE

RuleSymbol(rule) ==
    CASE rule = 1 -> "*" [] rule = 2 -> "**" [] rule = 3 -> "***"
      [] rule = 4 -> "****" [] OTHER -> DAGGER

RuleReason(rule) ==
    CASE rule = 1 -> "Head-to-head record" [] rule = 2 -> "Run differential"
      [] rule = 3 -> "Fewest runs against" [] rule = 4 -> "Most runs scored"
      [] OTHER -> "Requires manual resolution"

\* the pairs of rows the two-way procedure can be given: two rows of equal
\* (wins, losses, ties), in either order
TiedPairs ==
    {p \in (1..Len(stats)) \X (1..Len(stats)) :
        p[1] # p[2] /\ SameRecord(stats[p[1]], stats[p[2]])}

\* the row is one of exactly two rows with its (wins, losses, ties)
InGroupOfTwo(i) ==
    Cardinality({k \in 1..Len(stats) : SameRecord(stats[k], stats[i])}) = 2

\* C8: the two-way procedure puts first the team the first decisive rule
\* favours and stamps both teams with that rule's reason and symbol, so a
\* later rule never overrides an earlier decisive one; and a call gives a
\* group of two exactly that order and stamp.
C8_TwoWayRuleOrder ==
    \A p \in TiedPairs :
        LET t1 == stats[p[1]]
            t2 == stats[p[2]]
            rule == DecisiveRule(t1, t2)
            r == break_two_way_tie(games, <<t1, t2>>)
        IN  /\ ~r.err
            /\ Len(r.list) = 2
            /\ {r.list[1].team, r.list[2].team} = {t1.team, t2.team}
            /\ r.list[1].tie_breaker_symbol = RuleSymbol(rule)
            /\ r.list[2].tie_breaker_symbol = RuleSymbol(rule)
            /\ r.list[1].tie_breaker_reason = RuleReason(rule)
            /\ r.list[2].tie_breaker_reason = RuleReason(rule)
            /\ (rule < 5 /\ AheadBy(rule, t1, t2)) => r.list[1].team = t1.team
            /\ (rule < 5 /\ ~AheadBy(rule, t1, t2)) => r.list[1].team = t2.team
            /\ (AppliedOk /\ InGroupOfTwo(p[1])) =>
                  /\ t1.tie_breaker_symbol = RuleSymbol(rule)
                  /\ t1.tie_breaker_reason = RuleReason(rule)
                  /\ (rule < 5 /\ AheadBy(rule, t1, t2)) =>
                        t1.tie_breaker_rank + 1 = t2.tie_breaker_rank

\* a call resolved a group of two by runs against: the two teams played each
\* other to a head-to-head percentage of 0.5 or not at all, have equal capped
\* differentials, and the one with fewer runs against is ranked first
C8_Witness ==
    /\ AppliedOk
    /\ \E p \in TiedPairs :
          /\ InGroupOfTwo(p[1])
          /\ DecisiveRule(stats[p[1]], stats[p[2]]) = 3
          /\ stats[p[1]].tie_breaker_symbol = "***"
          /\ stats[p[2]].tie_breaker_symbol = "***"
          /\ stats[p[1]].runs_against < stats[p[2]].runs_against
          /\ stats[p[1]].tie_breaker_rank + 1 = stats[p[2]].tie_breaker_rank

\* C9: when none of the four rules is decisive, the two-way procedure
\* returns the two rows in their input order, both stamped with the dagger
\* and "Requires manual resolution".
C9_TwoWayFallback ==
    \A p \in TiedPairs :
        LET t1 == stats[p[1]]
            t2 == stats[p[2]]
        IN  DecisiveRule(t1, t2) = 5 =>
                break_two_way_tie(games, <<t1, t2>>)
                    = Resolved(<<Stamp(t1, "Requires manual resolution", DAGGER),
                                 Stamp(t2, "Requires manual resolution", DAGGER)>>)

\* a call left a group of two to manual resolution although the two teams
\* played each other (to a head-to-head percentage of exactly 0.5)
C9_Witness ==
    /\ AppliedOk
    /\ \E p \in TiedPairs :
          /\ InGroupOfTwo(p[1])
          /\ HeadToHeadGames(games, stats[p[1]].team, stats[p[2]].team) # {}
          /\ DecisiveRule(stats[p[1]], stats[p[2]]) = 5
          /\ stats[p[1]].tie_breaker_reason = "Requires manual resolution"
          /\ stats[p[2]].tie_breaker_symbol = DAGGER
          /\ stats[p[1]].tie_breaker_rank + 1 = stats[p[2]].tie_breaker_rank

\* the list a call sorts by basic record, annotations cleared
SortedStats == SortByRecord(ClearAll(StatsQuery(stats)))

\* the tied groups of three or more a call hands to the multi-way procedure
MultiWayGroups ==
    UNION {{group \in {SelectSeq(sorted, LAMBDA row : SameRecord(row, sorted[k])) :
                          k \in 1..Len(sorted)} : Len(group) >= 3} :
              sorted \in {SortedStats}}

\* group[i] has a defined head-to-head percentage above 0.5 against every
\* other member
BeatsAll(group, i) ==
    \A j \in 1..Len(group) :
        j # i => LET p == head_to_head_percentage(games, group[i].team, group[j].team)
                 IN  p.kind = "val" /\ PctAboveHalf(p)

\* C10: in a tied group of three or more, a team that beat every other
\* member head-to-head is placed first with reason "Beat all tied teams" and
\* the dagger, followed by the other members in the order their own
\* resolution gives; and a call ranks the group in that order.
C10_DominantWinner ==
    \A group \in MultiWayGroups :
        \A i \in 1..Len(group) :
            BeatsAll(group, i) =>
                \A r \in {break_multi_way_tie(games, group)},
                   rest \in {break_tie(games, Without(group, group[i]))} :
                    /\ ~r.err
                    /\ ~rest.err
                    /\ Len(r.list) = Len(group)
                    /\ r.list[1] = Stamp(group[i], "Beat all tied teams", DAGGER)
                    /\ Tail(r.list) = rest.list
                    /\ AppliedOk =>
                          /\ RowOf(group[i].team).tie_breaker_reason
                                = "Beat all tied teams"
                          /\ RowOf(group[i].team).tie_breaker_symbol = DAGGER
                          /\ \A m \in 1..Len(rest.list) :
                                /\ RowOf(rest.list[m].team).tie_breaker_rank
                                      = RowOf(group[i].team).tie_breaker_rank + m
                                /\ RowOf(rest.list[m].team).tie_breaker_symbol
                                      = rest.list[m].tie_breaker_symbol

\* a call ranked a team that beat both other members of its group first in
\* the group and resolved the two others by a two-way rule
C10_Witness ==
    /\ AppliedOk
    /\ \E group \in MultiWayGroups :
          \E i \in 1..Len(group) :
              /\ BeatsAll(group, i)
              /\ RowOf(group[i].team).tie_breaker_reason = "Beat all tied teams"
              /\ \A j \in 1..Len(group) :
                    j # i => /\ RowOf(group[j].team).tie_breaker_rank
                                   > RowOf(group[i].team).tie_breaker_rank
                             /\ RowOf(group[j].team).tie_breaker_symbol = "**"

\* group[i] has a defined head-to-head percentage below 0.5 against every
\* other member
LosesToAll(group, i) ==
    \A j \in 1..Len(group) :
        j # i => LET p == head_to_head_percentage(games, group[i].team, group[j].team)
                 IN  p.kind = "val" /\ PctBelowHalf(p)

HasDominantWinner(group) == \E i \in 1..Len(group) : BeatsAll(group, i)

HasDominatedLoser(group) == \E i \in 1..Len(group) : LosesToAll(group, i)

\* C11: in a tied group of three or more without a dominant winner, a team
\* that lost to every other member head-to-head is placed last with reason
\* "Lost to all tied teams" and the dagger, after the other members in the
\* order their own resolution gives; with a dominant winner the winner rule
\* applies instead (in a group of three nobody is then stamped as the
\* loser); and a call ranks the group in that order.
C11_DominatedLoser ==
    \A group \in MultiWayGroups :
        \A winner \in {HasDominantWinner(group)} :
            /\ (winner /\ Len(group) = 3) =>
                  \A r \in {break_multi_way_tie(games, group)} :
                      /\ r.list[1].tie_breaker_reason = "Beat all tied teams"
                      /\ \A m \in 1..Len(r.list) :
                            r.list[m].tie_breaker_reason # "Lost to all tied teams"
            /\ ~winner =>
                  \A i \in 1..Len(group) :
                      LosesToAll(group, i) =>
                          \A r \in {break_multi_way_tie(games, group)},
                             rest \in {break_tie(games, Without(group, group[i]))} :
                              /\ ~r.err
                              /\ Len(r.list) = Len(group)
                              /\ r.list[Len(group)]
                                    = Stamp(group[i], "Lost to all tied teams", DAGGER)
                              /\ SubSeq(r.list, 1, Len(group) - 1) = rest.list
                              /\ AppliedOk =>
                                    /\ RowOf(group[i].team).tie_breaker_reason
                                          = "Lost to all tied teams"
                                    /\ RowOf(group[i].team).tie_breaker_symbol = DAGGER
                                    /\ \A m \in 1..Len(rest.list) :
                                          /\ RowOf(rest.list[m].team).tie_breaker_rank
                                                = RowOf(group[i].team).tie_breaker_rank
                                                    - (Len(rest.list) - m + 1)
                                          /\ RowOf(rest.list[m].team).tie_breaker_symbol
                                                = rest.list[m].tie_breaker_symbol

\* a call ranked a team that lost to both other members of its group, none
\* of which beat all others, last in the group
C11_Witness ==
    /\ AppliedOk
    /\ \E group \in MultiWayGroups :
          /\ ~HasDominantWinner(group)
          /\ \E i \in 1..Len(group) :
                /\ LosesToAll(group, i)
                /\ RowOf(group[i].team).tie_breaker_reason = "Lost to all tied teams"
                /\ \A j \in 1..Len(group) :
                      j # i => RowOf(group[j].team).tie_breaker_rank
                                  < RowOf(group[i].team).tie_breaker_rank

\* the three keys of the fallback ordering, each to be read ascending
FallbackKey(row) ==
    <<-run_differential_capped(games, row.team).val, row.runs_against,
      -row.runs_scored>>

\* k1 comes before k2 or equals it, comparing (a, b, c) lexicographically
KeyLeq(k1, k2) ==
    \/ k1[1] < k2[1]
    \/ k1[1] = k2[1] /\ k1[2] < k2[2]
    \/ k1[1] = k2[1] /\ k1[2] = k2[2] /\ k1[3] <= k2[3]

\* the position of the team of row in the sequence group
PositionIn(group, row) == CHOOSE i \in 1..Len(group) : group[i].team = row.team

\* C12: a tied group of three or more with neither a dominant winner nor a
\* dominated loser comes back as the same rows, each stamped "Multi-team
\* tie resolution" with the dagger and otherwise unchanged, in ascending
\* order of (-capped differential, runs against, -runs scored), rows of
\* equal key in their input order; and a call ranks the group in that order.
C12_MultiWayFallback ==
    \A group \in MultiWayGroups :
        (~HasDominantWinner(group) /\ ~HasDominatedLoser(group)) =>
            \A r \in {break_multi_way_tie(games, group)} :
                /\ ~r.err
                /\ Len(r.list) = Len(group)
                /\ {r.list[m].team : m \in 1..Len(r.list)}
                      = {group[m].team : m \in 1..Len(group)}
                /\ \A key \in {[m \in 1..Len(r.list) |-> FallbackKey(r.list[m])]},
                      pos \in {[m \in 1..Len(r.list) |-> PositionIn(group, r.list[m])]} :
                      /\ \A m \in 1..Len(r.list) :
                            r.list[m] = Stamp(group[pos[m]],
                                              "Multi-team tie resolution", DAGGER)
                      /\ \A m \in 1..(Len(r.list) - 1) :
                            /\ KeyLeq(key[m], key[m + 1])
                            /\ key[m] = key[m + 1] => pos[m] < pos[m + 1]
                /\ AppliedOk =>
                      /\ \A m \in 1..(Len(r.list) - 1) :
                            RowOf(r.list[m].team).tie_breaker_rank + 1
                                = RowOf(r.list[m + 1].team).tie_breaker_rank
                      /\ \A m \in 1..Len(r.list) :
                            RowOf(r.list[m].team).tie_breaker_reason
                                = "Multi-team tie resolution"

\* a call ordered a group by the fallback keys and the order is not the
\* input order: the member ranked first was not the first of the group
C12_Witness ==
    /\ AppliedOk
    /\ \E group \in MultiWayGroups :
          /\ ~HasDominantWinner(group)
          /\ ~HasDominatedLoser(group)
          /\ \E i, j \in 1..Len(group) :
                /\ i < j
                /\ RowOf(group[j].team).tie_breaker_rank
                      < RowOf(group[i].team).tie_breaker_rank
                /\ RowOf(group[j].team).tie_breaker_reason
                      = "Multi-team tie resolution"
                /\ FallbackKey(group[j]) # FallbackKey(group[i])

\* the completed games of the season between the teams a and b
CompletedBetween(a, b) ==
    {g \in BagToSet(games) :
        /\ g.home_score # NULL /\ g.away_score # NULL
        /\ {g.home_team, g.away_team} = {a, b}}

\* group[i] has no head-to-head percentage against some other member
UndefinedAgainstSome(group, i) ==
    \E j \in 1..Len(group) :
        j # i /\ head_to_head_percentage(games, group[i].team, group[j].team).kind
                    = "none"

DominanceReasons == {"Beat all tied teams", "Lost to all tied teams"}

\* C13: head_to_head_percentage returns None exactly when the two teams
\* have no completed game against each other; a member of a tied group of
\* three or more with an undefined percentage against another member is
\* never stamped as the team that beat all or lost to all; and a two-way
\* tie with an undefined head-to-head is never decided by the head-to-head
\* rule: it is decided by the capped differential when that differs.
C13_UndefinedNeverDecides ==
    /\ \A a, b \in TieTeamSet :
          a # b =>
              LET p == head_to_head_percentage(games, a, b)
              IN  p.kind # "err" =>
                      (p.kind = "none" <=> CompletedBetween(a, b) = {})
    /\ \A group \in MultiWayGroups :
          \A undefined \in {{i \in 1..Len(group) : UndefinedAgainstSome(group, i)}} :
              undefined # {} =>
                  \A r \in {break_multi_way_tie(games, group)} :
                      \A i \in undefined :
                          /\ \A m \in 1..Len(r.list) :
                                r.list[m].team = group[i].team =>
                                    r.list[m].tie_breaker_reason \notin DominanceReasons
                          /\ AppliedOk =>
                                RowOf(group[i].team).tie_breaker_reason
                                    \notin DominanceReasons
    /\ \A p \in TiedPairs :
          head_to_head_percentage(games, stats[p[1]].team, stats[p[2]].team).kind
                = "none" =>
              \A r \in {break_two_way_tie(games, <<stats[p[1]], stats[p[2]]>>)},
                 d1 \in {run_differential_capped(games, stats[p[1]].team).val},
                 d2 \in {run_differential_capped(games, stats[p[2]].team).val} :
                  /\ r.list[1].tie_breaker_symbol # "*"
                  /\ r.list[2].tie_breaker_symbol # "*"
                  /\ d1 # d2 =>
                        /\ r.list[1].tie_breaker_symbol = "**"
                        /\ r.list[1].team = IF d1 > d2 THEN stats[p[1]].team
                                            ELSE stats[p[2]].team
                  /\ (AppliedOk /\ InGroupOfTwo(p[1])) =>
                        stats[p[1]].tie_breaker_symbol # "*"

\* a call ranked a group in which a team beat every member it met but never
\* met another member: it is not placed as the dominant winner
C13_Witness ==
    /\ AppliedOk
    /\ \E group \in MultiWayGroups :
          \E i \in 1..Len(group) :
              /\ UndefinedAgainstSome(group, i)
              /\ \E j \in 1..Len(group) :
                    j # i /\ CompletedBetween(group[i].team, group[j].team) # {}
              /\ \A j \in 1..Len(group) :
                    j # i =>
                        LET p == head_to_head_percentage(games, group[i].team,
                                                         group[j].team)
                        IN  p.kind = "none" \/ PctAboveHalf(p)
              /\ RowOf(group[i].team).tie_breaker_reason = "Multi-team tie resolution"

(***************************************************************************)
(* Properties of the aggregates.                                           *)
(***************************************************************************)
\* the completed games of the team in the season
CompletedGamesOf(team) ==
    {g \in BagToSet(games) :
        /\ g.home_score # NULL /\ g.away_score # NULL
        /\ team \in {g.home_team, g.away_team}}

\* the game's differential from the team's perspective
Margin(g, team) ==
    IF g.home_team = team THEN g.home_score - g.away_score
    ELSE g.away_score - g.home_score

\* x clamped to [-7, 7]
Clamp7(x) == IF x > 7 THEN 7 ELSE IF x < -7 THEN -7 ELSE x

\* the sum over the team's completed games of the clamped differentials
SumOfClamped(team) ==
    SumFn([g \in CompletedGamesOf(team) |->
              CopiesIn(g, games) * Clamp7(Margin(g, team))],
          CompletedGamesOf(team))

\* the sum over the team's completed games of the differentials
SumOfMargins(team) ==
    SumFn([g \in CompletedGamesOf(team) |-> CopiesIn(g, games) * Margin(g, team)],
          CompletedGamesOf(team))

\* C14: the capped run differential of a team is the sum over its completed
\* games of the game's differential from the team's side clamped to
\* [-7, 7]; where the two differ it is not the clamp of the season total.
C14_PerGameCap ==
    \A team \in TieTeamSet :
        LET d == run_differential_capped(games, team)
        IN  d.kind = "val" =>
                /\ d.val = SumOfClamped(team)
                /\ SumOfClamped(team) # Clamp7(SumOfMargins(team)) =>
                      d.val # Clamp7(SumOfMargins(team))

\* a team with a 9-run win and a 1-run win: capped 8, raw 10, clamp of the
\* total 7
C14_Witness ==
    \E team \in TieTeamSet :
        /\ Cardinality(CompletedGamesOf(team)) = 2
        /\ run_differential_capped(games, team) = [kind |-> "val", val |-> 8]
        /\ SumOfMargins(team) = 10
        /\ AppliedOk

\* the stored record of the row is what update_team_stats computes from the
\* games now
FreshlyAggregated(row) ==
    RecordFields(row) = RecordFields(AggregateRow(games, row, row.team))

\* the team's completed games decided by more than 7 runs
BigGames(team) ==
    {g \in CompletedGamesOf(team) : Margin(g, team) > 7 \/ Margin(g, team) < -7}

\* the sum over the team's games of what the cap takes off each margin
SumOfExcess(team) ==
    SumFn([g \in CompletedGamesOf(team) |->
              CopiesIn(g, games) * (Margin(g, team) - Clamp7(Margin(g, team)))],
          CompletedGamesOf(team))

\* C15 as stated: for a freshly aggregated row, run_differential_capped()
\* differs from run_differential() whenever at least one of the team's
\* games has a margin above 7 in absolute value.
C15_CapAlwaysShows ==
    \A i \in 1..Len(stats) :
        (FreshlyAggregated(stats[i]) /\ BigGames(stats[i].team) # {}) =>
            run_differential_capped(games, stats[i].team).val
                # run_differential(stats[i])

\* C15 amended: for a freshly aggregated row, run_differential() minus
\* run_differential_capped() is the sum of what the cap takes off each game,
\* so the two differ whenever a game has a margin above 7 in absolute value
\* and these amounts do not cancel, in particular whenever the games decided
\* by more than 7 are all wins or all losses.
C15_CapShowsUnlessCancelled ==
    \A i \in 1..Len(stats) :
        LET team == stats[i].team
            capped == run_differential_capped(games, team).val
        IN  FreshlyAggregated(stats[i]) =>
                /\ run_differential(stats[i]) - capped = SumOfExcess(team)
                /\ (BigGames(team) # {} /\ SumOfExcess(team) # 0) =>
                      capped # run_differential(stats[i])
                /\ ( /\ BigGames(team) # {}
                     /\ \/ \A g \in BigGames(team) : Margin(g, team) > 0
                        \/ \A g \in BigGames(team) : Margin(g, team) < 0 )
                   => capped # run_differential(stats[i])

\* an aggregated row of a team with a 9-run win and an 8-run loss: raw
\* differential 1, capped 0
C15_Witness ==
    \E i \in 1..Len(stats) :
        /\ FreshlyAggregated(stats[i])
        /\ stats[i].wins = 1 /\ stats[i].losses = 1
        /\ Cardinality(BigGames(stats[i].team)) = 2
        /\ run_differential(stats[i]) = 1
        /\ run_differential_capped(games, stats[i].team).val = 0

\* C16: points = 2*wins + ties for every stored Stats row in every
\* reachable state, and for the record calculate_team_stats returns for
\* every team.
C16_PointsFormula ==
    /\ \A i \in 1..Len(stats) :
          stats[i].points = (2 * stats[i].wins) + stats[i].ties
    /\ \A team \in Teams :
          LET c == calculate_team_stats(games, team)
          IN  c.points = (2 * c.wins) + c.ties

\* update_team_stats stored a row with a tie: one point, no win
C16_Witness ==
    /\ ret.op = "update_team_stats" /\ ret.status = "ok"
    /\ \E i \in 1..Len(stats) :
          /\ stats[i].ties = 1 /\ stats[i].wins = 0 /\ stats[i].points = 1
          /\ calculate_team_stats(games, stats[i].team).points = 1

\* the row holds the record update_team_stats computes from the games now,
\* for a team the call does not raise on and that has played
AggregatedWithGames(row) ==
    /\ \A g \in TeamSeasonGames(games, row.team) : ~RaisesOnCompare(g)
    /\ FreshlyAggregated(row)
    /\ row.wins + row.losses + row.ties > 0

\* C17 as stated: for every aggregated record with games_played > 0,
\* percentage = (wins + 0.5*ties) / games_played, that is
\* 2*games_played*percentage = 2*wins + ties (the stored percentage is in
\* thousandths, the calculator's a fraction).
C17_PercentageWithHalfTies ==
    /\ \A i \in 1..Len(stats) :
          AggregatedWithGames(stats[i]) =>
              2 * (stats[i].wins + stats[i].losses + stats[i].ties)
                    * stats[i].percentage
                  = 1000 * ((2 * stats[i].wins) + stats[i].ties)
    /\ \A team \in Teams :
          LET c == calculate_team_stats(games, team)
          IN  c.games_played > 0 =>
                  2 * c.games_played * c.percentage.num
                      = ((2 * c.wins) + c.ties) * c.percentage.den

\* C17 amended: for every aggregated record with games_played > 0,
\* percentage = wins / games_played, ties counting as games played but not
\* as wins: exactly for calculate_team_stats, to the nearest thousandth for
\* the row update_team_stats stores.
C17_PercentageOfWins ==
    /\ \A i \in 1..Len(stats) :
          AggregatedWithGames(stats[i]) =>
              LET n == stats[i].wins + stats[i].losses + stats[i].ties
                  d == (1000 * stats[i].wins) - (stats[i].percentage * n)
              IN  2 * d <= n /\ -2 * d <= n
    /\ \A team \in Teams :
          LET c == calculate_team_stats(games, team)
          IN  c.games_played > 0 =>
                  c.percentage.num * c.games_played = c.wins * c.percentage.den

\* update_team_stats stored the row of a team whose only game is a tie:
\* percentage 0, and the calculator's percentage is 0 as well
C17_Witness ==
    /\ ret.op = "update_team_stats" /\ ret.status = "ok"
    /\ \E i \in 1..Len(stats) :
          /\ AggregatedWithGames(stats[i])
          /\ stats[i].ties = 1 /\ stats[i].wins = 0 /\ stats[i].losses = 0
          /\ stats[i].percentage = 0
          /\ calculate_team_stats(games, stats[i].team).percentage.num = 0

\* C18: aggregating a team with no completed game in the season never
\* raises and gives percentage 0 and zero wins, losses, ties, runs and
\* points, in update_team_stats and in calculate_team_stats.
C18_NoGamesNoError ==
    \A team \in Teams :
        CompletedGamesOf(team) = {} =>
            /\ LET r == update_team_stats(games, stats, team)
               IN  /\ ~r.err
                   /\ RecordFields(StatsOf(r.stats, team))
                         = RecordFields(DefaultStats(team))
                   /\ StatsOf(r.stats, team).percentage = 0
            /\ LET c == calculate_team_stats(games, team)
               IN  /\ c.wins = 0 /\ c.losses = 0 /\ c.ties = 0
                   /\ c.points = 0 /\ c.percentage.num = 0
                   /\ c.runs_scored = 0 /\ c.runs_against = 0

(***************************************************************************)
(* Properties of the league table (specification SpecLeague).              *)
(***************************************************************************)
\* (a1, b1, c1) >= (a2, b2, c2) lexicographically
TripleGeq(k1, k2) ==
    \/ k1[1] > k2[1]
    \/ k1[1] = k2[1] /\ k1[2] > k2[2]
    \/ k1[1] = k2[1] /\ k1[2] = k2[2] /\ k1[3] >= k2[3]

\* every record of the list is >= the next one on key(record)
Descending(list, key(_)) ==
    \A m \in 1..(Len(list) - 1) : TripleGeq(key(list[m]), key(list[m + 1]))

\* (wins, points, percentage) of a stored row and of a calculator record,
\* both percentages in thousandths of a common denominator
RowSeedKey(row) == <<row.wins, row.points, row.percentage>>

RecordSeedKey(c) == <<c.wins, c.points, PercentageKey(games, c)>>

\* (points, percentage, -runs_against) of a calculator record
RecordPointsKey(c) == <<c.points, PercentageKey(games, c), -c.runs_against>>

\* C19 as stated: the league aggregator's output and the seed order the
\* resolver consumes are sorted by (wins, points, percentage) descending.
C19_SortedByWins ==
    /\ Descending(SortedStats, RowSeedKey)
    /\ Descending(calculate_all_team_stats(games, TeamsByName), RecordSeedKey)
    /\ ret.op = "calculate_all_team_stats" => Descending(ret.list, RecordSeedKey)

\* C19 amended: the seed order the resolver consumes (the list
\* apply_spo_standings sorts) is sorted by (wins, points, percentage)
\* descending; the output of calculate_all_team_stats holds the teams with
\* at least one completed game, sorted by (points descending, percentage
\* descending, runs against ascending).
C19_SeedOrder ==
    /\ Descending(SortedStats, RowSeedKey)
    /\ {SortedStats[m].team : m \in 1..Len(SortedStats)}
          = {stats[m].team : m \in 1..Len(stats)}
    /\ \A out \in {calculate_all_team_stats(games, TeamsByName)} :
          /\ Descending(out, RecordPointsKey)
          /\ {out[m].team : m \in 1..Len(out)}
                = {team \in LeagueTeamSet : CompletedGamesOf(team) # {}}
          /\ ret.op = "calculate_all_team_stats" => ret.list = out

\* the calculator returned a table in which a team without a win (three
\* ties, 3 points) stands above a team with a win (2 points), while the seed
\* order of the resolver has the team with the win first
C19_Witness ==
    /\ ret.op = "calculate_all_team_stats"
    /\ Len(ret.list) >= 2
    /\ ret.list[1].wins = 0 /\ ret.list[1].points = 3
    /\ \E m \in 2..Len(ret.list) : ret.list[m].wins = 1 /\ ret.list[m].points = 2
    /\ SortedStats[1].wins = 1

\* C20: after apply_spo_standings, the returned records of the teams with
\* at least one played game, in returned order (the list the view shows),
\* carry tie_breaker_rank equal to their 1-based position in that list.
C20_VisibleRanksContiguous ==
    AppliedOk =>
        LET visible == VisibleStandings(games, ret.list)
        IN  \A m \in 1..Len(visible) : visible[m].tie_breaker_rank = m

(***************************************************************************)
(* Properties of rows created before the games were entered (specification *)
(* SpecTie).                                                               *)
(***************************************************************************)
\* every row of the season holds the all-zero record it was created with
AllZeroRecords ==
    \A i \in 1..Len(stats) :
        RecordFields(stats[i]) = RecordFields(DefaultStats(stats[i].team))

\* by the completed games, a and b have the same (wins, losses, ties) and no
\* third team of the season has it
RealTiePair(a, b) ==
    /\ a # b
    /\ PlayedRecord(a) = PlayedRecord(b)
    /\ \A c \in TieTeamSet \ {a, b} : PlayedRecord(c) # PlayedRecord(a)

\* the team is stamped by the fallback of the multi-way procedure
StampedMultiTeam(team) ==
    /\ RowOf(team).tie_breaker_symbol = DAGGER
    /\ RowOf(team).tie_breaker_reason = "Multi-team tie resolution"

\* of two teams with different capped differentials the one with the higher
\* is ranked first
RankedByCappedDifferential(a, b) ==
    run_differential_capped(games, a).val > run_differential_capped(games, b).val
        => RowOf(a).tie_breaker_rank < RowOf(b).tie_breaker_rank

\* C23 as stated: after a call on a season whose rows all hold the all-zero
\* record although games were entered, two teams whose real records tie
\* only with each other are ordered by the live capped differential and
\* both stamped with the dagger and "Multi-team tie resolution".
C23_StaleRowsMultiTeam ==
    (AppliedOk /\ AllZeroRecords) =>
        \A a, b \in TieTeamSet :
            RealTiePair(a, b) =>
                /\ StampedMultiTeam(a)
                /\ StampedMultiTeam(b)
                /\ RankedByCappedDifferential(a, b)

\* C23 amended: a call does not re-aggregate rows that hold the all-zero
\* record, and three or more of them are one tied group of the multi-way
\* procedure.  When no member beat all others or lost to all others
\* head-to-head, every member is stamped with the dagger and "Multi-team
\* tie resolution" and two teams whose real records tie only with each
\* other are ordered by the live capped differential; otherwise the
\* dominant or dominated member is stamped as such, and in a group of three
\* the two others carry the symbol of the two-way rule that decides them.
C23_StaleRowsFallback ==
    (AppliedOk /\ AllZeroRecords) =>
        /\ MultiWayGroups = {SortedStats}
        /\ \A group \in MultiWayGroups :
              \A dominance \in {HasDominantWinner(group) \/ HasDominatedLoser(group)} :
                  /\ ~dominance =>
                        /\ \A a \in TieTeamSet : StampedMultiTeam(a)
                        /\ \A a, b \in TieTeamSet :
                              RealTiePair(a, b) => RankedByCappedDifferential(a, b)
                  /\ dominance =>
                        \E i \in 1..Len(group) :
                            /\ BeatsAll(group, i) \/ LosesToAll(group, i)
                            /\ RowOf(group[i].team).tie_breaker_reason
                                  \in DominanceReasons
                            /\ Len(group) = 3 =>
                                  \A j, k \in 1..3 :
                                      (j # i /\ k # i /\ j < k) =>
                                          RowOf(group[j].team).tie_breaker_symbol
                                              = RuleSymbol(DecisiveRule(group[j], group[k]))

\* a call on all-zero rows ranked two teams that split their two games with
\* each other (1-1 each, the third team has not played) by the live capped
\* differential, both stamped by the multi-team fallback
C23_Witness ==
    /\ AppliedOk
    /\ AllZeroRecords
    /\ \E a, b \in TieTeamSet :
          /\ RealTiePair(a, b)
          /\ PlayedRecord(a) = <<1, 1, 0>>
          /\ run_differential_capped(games, a).val
                > run_differential_capped(games, b).val
          /\ RowOf(a).tie_breaker_rank < RowOf(b).tie_breaker_rank
          /\ StampedMultiTeam(a)
          /\ StampedMultiTeam(b)

(***************************************************************************)
(* Properties of the head-to-head percentages (specification SpecTie).     *)
(***************************************************************************)
\* the percentage is exactly 0.5
PctIsHalf(p) == 2 * p.num = p.den

\* C24: for two distinct teams with a completed game between them, the two
\* head-to-head percentages are defined and add up to 1, the wins, losses
\* and ties of one are the losses, wins and ties of the other, and the
\* percentages differ exactly when they are not 0.5; so the two-way
\* procedure decides by head-to-head exactly when the percentage is not 0.5.
C24_HeadToHeadComplementary ==
    /\ \A a, b \in TieTeamSet :
          (a # b /\ CompletedBetween(a, b) # {}) =>
              \A ra \in {head_to_head_record(games, a, b)},
                 rb \in {head_to_head_record(games, b, a)},
                 p \in {head_to_head_percentage(games, a, b)},
                 q \in {head_to_head_percentage(games, b, a)} :
                  /\ p.kind = "val" /\ q.kind = "val"
                  /\ (p.num * q.den) + (q.num * p.den) = p.den * q.den
                  /\ ra.w = rb.l /\ ra.l = rb.w /\ ra.t = rb.t
                  /\ ~PctEq(p, q) <=> ~PctIsHalf(p)
                  /\ HeadToHeadDecisive(p, q) <=> ~PctIsHalf(p)
    /\ \A pair \in TiedPairs :
          CompletedBetween(stats[pair[1]].team, stats[pair[2]].team) # {} =>
              \A r \in {break_two_way_tie(games, <<stats[pair[1]], stats[pair[2]]>>)},
                 p \in {head_to_head_percentage(games, stats[pair[1]].team,
                                                stats[pair[2]].team)} :
                  /\ ~r.err
                  /\ r.list[1].tie_breaker_symbol = "*" <=> ~PctIsHalf(p)

\* a call decided a group of two by head-to-head between two teams that met
\* once: percentages 1 and 0
C24_Witness ==
    /\ AppliedOk
    /\ \E pair \in TiedPairs :
          /\ InGroupOfTwo(pair[1])
          /\ stats[pair[1]].tie_breaker_symbol = "*"
          /\ stats[pair[2]].tie_breaker_symbol = "*"
          /\ head_to_head_percentage(games, stats[pair[1]].team, stats[pair[2]].team)
                = [kind |-> "val", num |-> 2, den |-> 2]
          /\ head_to_head_percentage(games, stats[pair[2]].team, stats[pair[1]].team)
                = [kind |-> "val", num |-> 0, den |-> 2]

(***************************************************************************)
(* Properties of the returned list (specification SpecTie).                *)
(***************************************************************************)
\* the teams of a list of rows
TeamsOf(list) == {list[m].team : m \in 1..Len(list)}

\* every team of the list appears in it once
NoDuplicate(list) ==
    \A m, n \in 1..Len(list) : list[m].team = list[n].team => m = n

\* the groups of two a call hands to the two-way procedure
TwoWayGroups ==
    UNION {{group \in {SelectSeq(sorted, LAMBDA row : SameRecord(row, sorted[k])) :
                          k \in 1..Len(sorted)} : Len(group) = 2} :
              sorted \in {SortedStats}}

\* C26: the list a call returns holds every row of the season exactly once,
\* each as it is stored after the call, and the resolved sublist of every
\* tied group holds exactly the members of the group, each once.
C26_ReturnedPermutation ==
    /\ AppliedOk =>
          /\ Len(ret.list) = Len(stats)
          /\ TeamsOf(ret.list) = TeamsOf(stats)
          /\ NoDuplicate(ret.list)
          /\ \A m \in 1..Len(ret.list) : ret.list[m] = RowOf(ret.list[m].team)
    /\ \A group \in TwoWayGroups \cup MultiWayGroups :
          \A r \in {break_tie(games, group)} :
              /\ ~r.err
              /\ Len(r.list) = Len(group)
              /\ TeamsOf(r.list) = TeamsOf(group)
              /\ NoDuplicate(r.list)

\* a call returned all three rows of a season in which a tied group of three
\* was resolved through a dominated loser and a two-way tie of the others
C26_Witness ==
    /\ AppliedOk
    /\ Len(ret.list) = 3
    /\ \E group \in MultiWayGroups :
          /\ Len(group) = 3
          /\ ret.list[3].tie_breaker_reason = "Lost to all tied teams"
          /\ ret.list[1].tie_breaker_reason # "Lost to all tied teams"
          /\ ret.list[1].tie_breaker_reason = ret.list[2].tie_breaker_reason

(***************************************************************************)
(* Properties of the dominance checks (specification SpecTie).             *)
(***************************************************************************)
\* the groups of three or more distinct rows of the season, in every order
AnyGroups ==
    UNION {{[k \in 1..Cardinality(T) |-> stats[o[k]]] : o \in Orders(T)} :
              T \in {U \in SUBSET (1..Len(stats)) : Cardinality(U) >= 3}}

\* the inner loop of the procedure passes group[i]
Qualifies(group, i, mode) == DominanceFrom(games, group, i, 1, mode) = "yes"

\* the team the outer loop of the procedure picks, 0 if it picks none
PickedTeam(group, mode) ==
    LET d == FirstDominant(games, group, 1, mode)
    IN  IF d.kind = "found" THEN group[d.idx].team ELSE 0

\* C27: in a group of three or more distinct teams at most one member
\* passes the dominant-winner test and at most one the dominated-loser
\* test, the members that pass are those with a defined percentage above
\* (below) 0.5 against every other member, and the team the loops pick is
\* the same in every order of the group.
C27_UniqueDominance ==
    \A group \in AnyGroups :
        \A beat \in {{i \in 1..Len(group) : Qualifies(group, i, "beat")}},
           lost \in {{i \in 1..Len(group) : Qualifies(group, i, "lost")}} :
            /\ Cardinality(beat) <= 1
            /\ Cardinality(lost) <= 1
            /\ beat = {i \in 1..Len(group) : BeatsAll(group, i)}
            /\ lost = {i \in 1..Len(group) : LosesToAll(group, i)}
            /\ {group[i].team : i \in beat} = {PickedTeam(group, "beat")} \ {0}
            /\ {group[i].team : i \in lost} = {PickedTeam(group, "lost")} \ {0}
            /\ \A other \in AnyGroups :
                  TeamsOf(other) = TeamsOf(group) =>
                      /\ PickedTeam(other, "beat") = PickedTeam(group, "beat")
                      /\ PickedTeam(other, "lost") = PickedTeam(group, "lost")

\* a call stamped as the dominant winner the one team that beat both others,
\* which was not the first team of the group the procedure was given
C27_Witness ==
    /\ AppliedOk
    /\ \E group \in MultiWayGroups :
          \E i \in 2..Len(group) :
              /\ BeatsAll(group, i)
              /\ PickedTeam(group, "beat") = group[i].team
              /\ ~Qualifies(group, 1, "beat")
              /\ RowOf(group[i].team).tie_breaker_reason = "Beat all tied teams"

(***************************************************************************)
(* Properties of the annotations and of the final order (specification     *)
(* SpecTie).                                                               *)
(***************************************************************************)
\* the symbols of the rules
RuleSymbols == {"*", "**", "***", "****", DAGGER}

\* C28: after a call, a row carries a symbol, and a reason, exactly when
\* another row of the season has the same stored (wins, losses, ties); every
\* symbol is one of the five rule symbols; and the multi-way procedure
\* stamps every member of its group on every path.
C28_StampedIffTied ==
    /\ AppliedOk =>
          \A i \in 1..Len(stats) :
              /\ stats[i].tie_breaker_symbol # "" <=> SharesRecord(stats, i)
              /\ stats[i].tie_breaker_reason # "" <=> SharesRecord(stats, i)
              /\ stats[i].tie_breaker_symbol \in RuleSymbols \cup {""}
    /\ \A group \in MultiWayGroups :
          \A r \in {break_multi_way_tie(games, group)} :
              \A m \in 1..Len(r.list) :
                  /\ r.list[m].tie_breaker_symbol \in RuleSymbols
                  /\ r.list[m].tie_breaker_reason # ""

\* a call stamped the two rows of a tied pair and left the third row of the
\* season, which has another record, without symbol and reason
C28_Witness ==
    /\ AppliedOk
    /\ \E i, j, k \in 1..Len(stats) :
          /\ i # j
          /\ SameRecord(stats[i], stats[j])
          /\ ~SharesRecord(stats, k)
          /\ stats[i].tie_breaker_symbol \in RuleSymbols
          /\ stats[j].tie_breaker_symbol \in RuleSymbols
          /\ stats[k].tie_breaker_symbol = ""
          /\ stats[k].tie_breaker_reason = ""

(***************************************************************************)
(* Properties of the final order (specification SpecTie).                  *)
(***************************************************************************)
\* the key k1 is strictly better than k2, comparing (wins, points,
\* percentage) lexicographically
TripleBetter(k1, k2) == TripleGeq(k1, k2) /\ k1 # k2

\* C29: in the list a call returns and in the ranks it stores, the primary
\* key (wins, points, percentage) does not increase with the rank, a row
\* with a strictly better key is ranked above a row with a worse one, and
\* the rows of equal (wins, losses, ties) hold a contiguous block of ranks.
C29_PrimaryOrderKept ==
    AppliedOk =>
        /\ Descending(ret.list, RowSeedKey)
        /\ \A i, j \in 1..Len(stats) :
              /\ TripleBetter(RowSeedKey(stats[i]), RowSeedKey(stats[j])) =>
                    stats[i].tie_breaker_rank < stats[j].tie_breaker_rank
              /\ (SameRecord(stats[i], stats[j])
                    /\ stats[i].tie_breaker_rank < stats[j].tie_breaker_rank) =>
                    \A k \in 1..Len(stats) :
                        ( /\ stats[i].tie_breaker_rank < stats[k].tie_breaker_rank
                          /\ stats[k].tie_breaker_rank < stats[j].tie_breaker_rank )
                            => SameRecord(stats[k], stats[i])

\* a call ranked a row with a strictly better key first and reordered the
\* tied pair below it: of the pair, the row created later is ranked above
C29_Witness ==
    /\ AppliedOk
    /\ \E i, j, k \in 1..Len(stats) :
          /\ i < j
          /\ SameRecord(stats[i], stats[j])
          /\ stats[j].tie_breaker_rank < stats[i].tie_breaker_rank
          /\ TripleBetter(RowSeedKey(stats[k]), RowSeedKey(stats[j]))
          /\ stats[k].tie_breaker_rank < stats[j].tie_breaker_rank

(***************************************************************************)
(* The two aggregations (specification Spec).                              *)
(***************************************************************************)
\* C30: for every team and game set, update_team_stats completes and stores
\* the wins, losses, ties, points, runs scored and runs against that
\* calculate_team_stats returns, and its percentage to the three decimals
\* of the stored field; games with one null score included.
C30_AggregationsAgree ==
    \A team \in Teams :
        \A r \in {update_team_stats(games, stats, team)},
           c \in {calculate_team_stats(games, team)} :
            /\ ~r.err
            /\ RecordFields(StatsOf(r.stats, team))
                  = <<c.wins, c.losses, c.ties, c.points, c.runs_scored,
                      c.runs_against>>
            /\ StatsOf(r.stats, team).percentage
                  = Percentage(c.percentage.num, c.percentage.den)

(***************************************************************************)
(* Properties of the memoization (specification SpecCalc).                 *)
(***************************************************************************)
\* the last operation was a calculate_team_stats call
Calculated == ret.op = "calculate_team_stats"

\* the (team, season) pairs a calculator is called with
CalcKeys == Teams \X CalcSeasons

\* every entry of every cache was computed for the (team, season) of its
\* key, and two different pairs have different keys
KeysSeparate ==
    /\ \A k1, k2 \in CalcKeys :
          cache_key(k1[1], k1[2]) = cache_key(k2[1], k2[2]) => k1 = k2
    /\ \A inst \in 1..Len(caches) :
          /\ DOMAIN caches[inst] \subseteq {cache_key(k[1], k[2]) : k \in CalcKeys}
          /\ \A k \in CalcKeys :
                cache_key(k[1], k[2]) \in DOMAIN caches[inst] =>
                    \A dict \in {caches[inst][cache_key(k[1], k[2])]} :
                        dict.season = k[2] /\ dict.record.team = k[1]

\* a call returns the entry of its calculator for its key, and on a miss
\* that is the record of the games at the time of the call
ReturnsOwnEntry ==
    Calculated =>
        /\ call.inst \in 1..Len(caches)
        /\ cache_key(call.team, call.season) \in DOMAIN caches[call.inst]
        /\ ret.list = <<caches[call.inst][cache_key(call.team, call.season)]>>
        /\ ~call.hit => ret.list = <<StatsDict(games, call.team, call.season)>>

\* no step changes or drops an entry of a cache or a calculator, and a call
\* is a hit exactly when its own calculator held the key before the call,
\* whatever the other calculators hold
EntriesKept ==
    /\ Len(caches') >= Len(caches)
    /\ \A inst \in 1..Len(caches) :
          \A key \in DOMAIN caches[inst] :
              /\ key \in DOMAIN caches'[inst]
              /\ caches'[inst][key] = caches[inst][key]
    /\ (Calculated' /\ <<ret, call, caches>>' # <<ret, call, caches>>) =>
          /\ call'.inst \in 1..Len(caches)
          /\ call'.hit <=> cache_key(call'.team, call'.season)
                              \in DOMAIN caches[call'.inst]
          /\ call'.hit => caches' = caches
          /\ \A inst \in 1..Len(caches) :
                inst # call'.inst => caches'[inst] = caches[inst]

\* C22: within one calculator a repeated call for a key returns the record
\* of the first call whatever happened to the games since; different
\* (team, season) keys, the all-seasons key included, never share an entry;
\* and a calculator never returns what another calculator cached: its first
\* call for a key computes the record from the current games.
C22_MemoizationPerInstance ==
    /\ [](KeysSeparate /\ ReturnsOwnEntry)
    /\ [][EntriesKept]_vars

\* a calculator returned on a hit a record that is no longer the record of
\* the current games, while a calculator constructed later holds the
\* current record under the same key
C22_Witness ==
    /\ Calculated
    /\ call.hit
    /\ ret.list # <<StatsDict(games, call.team, call.season)>>
    /\ \E inst \in 1..Len(caches) :
          /\ inst > call.inst
          /\ cache_key(call.team, call.season) \in DOMAIN caches[inst]
          /\ caches[inst][cache_key(call.team, call.season)]
                = StatsDict(games, call.team, call.season)
    /\ Cardinality(DOMAIN caches[call.inst]) = 2

CallsShrink ==
    \A k \in 1..(Len(app.stack) - 1) :
        /\ Len(app.stack[k].held) = 1
        /\ \E m \in 1..Len(app.stack[k].teams) :
              app.stack[k].teams[m].team = app.stack[k].held[1].team
        /\ app.stack[k + 1].teams
              = Without(app.stack[k].teams, app.stack[k].held[1])
        /\ Len(app.stack[k + 1].teams) < Len(app.stack[k].teams)

\* a step of the while loop and of the resolution never adds to
\* remaining_teams, and a pass that extends final_standings removes at least
\* one record from it
LoopShrinks ==
    app.pc \in {"loop", "break", "return"}
        => /\ Len(app'.remaining) <= Len(app.remaining)
           /\ app'.final # app.final
                 => Len(app'.remaining) < Len(app.remaining)

\* the standings run is over: it returned or it raised
AppEnded == app.pc \in {"done", "raised"}

\* the while loop was left with remaining_teams empty, and no _break_tie
\* call is in progress outside the loop
LoopLeftEmpty ==
    app.pc \in {"rank", "done"} => app.remaining = <<>> /\ app.stack = <<>>

\* C21: every recursive call of _break_tie receives a group strictly smaller
\* than its caller's, the caller's group without the dominant or dominated
\* team; every pass of the main loop removes at least one record from
\* remaining_teams, which is empty when the loop is left; and a run that has
\* begun ends, every resolution of a tied group having returned, unless it
\* raised.
C21_ResolverTerminates ==
    /\ [][LoopShrinks]_vars
    /\ [](CallsShrink /\ LoopLeftEmpty)
    /\ (app.pc # "idle") ~> AppEnded

\* a run that resolved a group of three by a recursive call has returned:
\* one team was stamped by dominance, the other two by the two-way
\* resolution, and the three are ranked
C21_Witness ==
    /\ app.pc = "done"
    /\ app.remaining = <<>>
    /\ Len(app.final) = TieTeams
    /\ \E m \in 1..Len(app.final) :
          app.final[m].tie_breaker_reason \in DominanceReasons
    /\ \E m \in 1..Len(app.final) :
          /\ app.final[m].tie_breaker_reason \notin DominanceReasons
          /\ app.final[m].tie_breaker_reason # ""
    /\ \A m \in 1..Len(app.final) : app.final[m].tie_breaker_rank = m

====
